---- MODULE Spec2Model ----
(***************************************************************************)
(* Flight-Radar-3D: the flight layer (FlightLayer.ts) and the zoom part of *)
(* the globe engine (GlobeEngine).                                         *)
(*                                                                         *)
(* Numbers.  The source computes in IEEE doubles; the model computes in    *)
(* fixed point and truncates toward zero where a double would round:       *)
(*   latitude, longitude   micro-degrees (Deg units per degree)            *)
(*   altitude, speed       metres, metres per second (whole numbers)       *)
(*   heading               whole degrees; its cosine and sine times 1000   *)
(*   cos(latitude)         times 10000                                     *)
(*   dt                    milliseconds                                    *)
(*   zoom distances        thousandths of a globe-radius unit              *)
(***************************************************************************)
EXTENDS Integers, Naturals, Sequences, FiniteSets, TLC

\* The field names of the model's records; every record constructor below
\* lists its fields in this order.
FieldNames ==
  [id |-> 0, lat |-> 0, lng |-> 0, alt |-> 0, vel |-> 0, hdg |-> 0, vr |-> 0,
   cs |-> 0, origin |-> 0, squawk |-> 0, cat |-> 0, lastContact |-> 0,
   baroAlt |-> 0, spi |-> 0, scale |-> 0, op |-> 0, L |-> 0, dt |-> 0,
   maxDeg |-> 0, res |-> 0, fi |-> 0, zero |-> 0, speed |-> 0, at |-> 0,
   state |-> 0, delay |-> 0, draw |-> 0, holdT |-> 0, uOp |-> 0, rel |-> 0,
   born |-> 0, lineVis |-> 0, sparkVis |-> 0, pc |-> 0, now |-> 0, resp |-> 0,
   flights |-> 0, timestamp |-> 0, cached |-> 0, stale |-> 0, error |-> 0]

(* ------------------------------ bounds --------------------------------- *)
MaxSnapshots == 2    \* setFlights calls in one behaviour
MaxFrames == 2       \* update calls in one behaviour

(* ------------------------- program constants --------------------------- *)
\* FlightLayer.ts:5 sets 6000; the cap is scaled down so that a snapshot of
\* three entities exceeds it.  Nothing else depends on its magnitude.
MAX_INSTANCES == 2
PLANE_CLASS_COUNT == 3
Light == 0
Medium == 1
Heavy == 2

Deg == 1000000
NoId == "null"
Ids == {"a", "b", "c"}

Abs(x) == IF x >= 0 THEN x ELSE -x
Min(x, y) == IF x <= y THEN x ELSE y
Max(x, y) == IF x >= y THEN x ELSE y
\* double division, truncated toward zero at the model's resolution
TruncDiv(a, b) == IF a >= 0 THEN a \div b ELSE -((-a) \div b)

classifyFlight(cat) ==
  IF cat >= 4 /\ cat <= 7 THEN Heavy
  ELSE IF cat = 3 THEN Medium
  ELSE Light

(* --------------------------- the feed's records ------------------------ *)
\* FlightData records as the API route delivers them: two reports for each
\* aircraft id.  Report 2 of "b" is near the pole and carries a longitude in
\* the 0..360 convention.
Rec(pId, pLat, pLng, pAlt, pVel, pHdg, pCat, pCs) ==
  [id |-> pId, lat |-> pLat, lng |-> pLng, alt |-> pAlt, vel |-> pVel,
   hdg |-> pHdg, vr |-> 0, cs |-> pCs, origin |-> "r", squawk |-> "7000",
   cat |-> pCat, lastContact |-> 0, baroAlt |-> pAlt, spi |-> FALSE]

Variants == {1, 2}

Feed(id, v) ==
  CASE id = "a" /\ v = 1 -> Rec("a", 0, 180 * Deg, 10000, 250, 90, 5, "A1")
    [] id = "a" /\ v = 2 -> Rec("a", 70 * Deg, -179 * Deg, 11000, 200, 60, 0, "A2")
    [] id = "b" /\ v = 1 -> Rec("b", -3 * Deg, -178 * Deg, 3000, 250, 270, 3, "B1")
    [] id = "b" /\ v = 2 -> Rec("b", 89960000, 190 * Deg, 3500, 240, 90, 7, "B2")
    [] id = "c" /\ v = 1 -> Rec("c", 40 * Deg, 20 * Deg, 500, 100, 210, 2, "C1")
    [] id = "c" /\ v = 2 -> Rec("c", 41 * Deg, 21 * Deg, 600, 100, 330, 3, "C2")

\* the id lists of the snapshots: empty, one entity, two in either order, the
\* same id twice, and one entity more than MAX_INSTANCES
IdLists == {<<>>, <<"a">>, <<"a", "b">>, <<"b", "a">>, <<"a", "a">>,
            <<"a", "b", "c">>}

Snapshot(ids, v) == [i \in 1..Len(ids) |-> Feed(ids[i], v)]

(* ------------------------------- state --------------------------------- *)
VARIABLES
  heap,        \* LiveFlight objects, by object identity
  live,        \* FlightLayer.live: the list of references to LiveFlight objects
  selectedId,  \* FlightLayer.selectedId
  meshCount,   \* meshes[c].count
  instances,   \* the drawn prefix of meshes[c].instanceMatrix, per class
  stems,       \* the drawn prefix of the stem position buffer
  stemDraw,    \* stemGeo.drawRange.count
  selVisible,  \* selMesh.visible
  selMatrix,   \* selMesh.matrix
  selMap,      \* selMat.map: the class whose selected texture is bound
  last,        \* the last call and its arguments and result
  nSnap,       \* setFlights calls so far
  nFrame,      \* update calls so far
  \* GlobeEngine
  selectedFlight,  \* _selectedFlight: the id of the FlightData held, or NoId
  prevTrackedId,   \* _prevTrackedId
  userZoom,        \* _userZoom
  preTrackZoom,    \* _preTrackZoom
  trackingZoom,    \* _trackingZoom
  touchStartDist,  \* _touchStartDist, px
  touchStartZoom,  \* _touchStartZoom
  touchStart,      \* <<_touchStartX, _touchStartY>>
  touchMoved,      \* _touchMoved
  dragging,        \* _dragging
  dragPrev,        \* <<_dragPrevX, _dragPrevY>>
  dragVel,         \* <<_dragVelX, _dragVelY>>, in 1/100000 radian
  userRot,         \* <<_userRotX, _userRotY>>, in 1/10000 radian
  gRot,            \* g.rotation: <<x, y, z>>, in 1/10000 radian
  nInput,          \* input events and engine calls so far
  \* GlobeEngine: frame loop, scene and resources
  disposed,        \* _disposed
  flightLayer,     \* whether _flightLayer is set
  rafPending,      \* whether the request of _frameId is outstanding
  vis,             \* vis
  paused,          \* _paused
  rdy,             \* rdy
  loading,         \* whether _loadCountries is still awaiting its data
  onReady,         \* whether _onReady is set
  onFlightClick,   \* whether _onFlightClick is set
  readyCalls,      \* invocations of the onReady callback so far
  delivered,       \* the arguments _onFlightClick was invoked with, in order
  renders,         \* frames rendered so far
  simT,            \* t, ms
  gQuat,           \* g.quaternion
  qTarget,         \* _qTarget
  trackTransition, \* _trackTransition, ms
  camZ,            \* _camZ, thousandths
  targetCamZ,      \* _targetCamZ, thousandths
  ms,              \* <<ms.x, ms.y>>, in 1/10000
  mouse,           \* <<mouse.x, mouse.y>>, in 1/10000
  camPos,          \* cam.position, thousandths
  cachedData,      \* route.ts cachedData: <<>> for null, or the flights and timestamp
  clock,           \* Date.now() on the server, ms
  reqs,            \* the GET /api/flights requests so far, in order of arrival
  polls,           \* the fetchFlights calls of the page so far, in order
  rawFlights,      \* Globe rawFlights: the poll whose list it holds, 0 for []
  active,          \* the polling effect's flag
  connectionStatus, \* Globe connectionStatus
  pushed,          \* the list the page last passed to engine.setFlights
  win,             \* <<innerWidth, innerHeight>>, px
  listeners,       \* the events a handler of the engine is registered for
  removeCalls,     \* removeEventListener calls so far, per event
  created,         \* the GPU-side resources created so far
  released,        \* dispose() calls so far, per resource
  arcs,            \* arcs, oldest first
  ambientArcTimer, \* _ambientArcTimer, ms; -1 stands for undefined
  nTick,           \* invocations of the frame callback so far
  sinceSelect,     \* frame time, in ms, since an entity was selected while
                   \* another was being tracked; -1 when no such switch holds
  gesture,         \* the touch gesture in progress, as the platform saw it:
                   \* <<fingers down, landing point of the single finger,
                   \*   a move was ever more than 8 px from it, a second
                   \*   finger joined, horizontal offset change of its moves,
                   \*   <<zoom, touches>> when the second finger landed,
                   \*   the touch points last seen of the fingers still down
                   \*   once a second finger has joined>>
  zoomMemo         \* the zoom target before the first zoomIn since the last
                   \* setSelectedFlight(null); -1 when there was none

\* the API route and the page's polling loop
netVars == <<cachedData, clock, reqs, polls, rawFlights, active,
             connectionStatus, pushed>>

layerVars == <<heap, live, selectedId, meshCount, instances, stems, stemDraw,
               selVisible, selMatrix, selMap>>
engineVars == <<selectedFlight, prevTrackedId, userZoom, preTrackZoom,
                trackingZoom, touchStartDist, touchStartZoom, touchStart,
                touchMoved, dragging, dragPrev, dragVel, userRot, gRot, nInput>>
sceneVars == <<disposed, flightLayer, rafPending, vis, paused, rdy, loading,
               onReady, onFlightClick, readyCalls, delivered, renders, simT,
               gQuat, qTarget, trackTransition, camZ, targetCamZ, ms, mouse,
               camPos, win, netVars, listeners, removeCalls, created, released, arcs,
               ambientArcTimer, nTick, sinceSelect, gesture, zoomMemo>>
vars == <<heap, live, selectedId, meshCount, instances, stems, stemDraw,
          selVisible, selMatrix, selMap, last, nSnap, nFrame,
          selectedFlight, prevTrackedId, userZoom, preTrackZoom,
          trackingZoom, touchStartDist, touchStartZoom, touchStart,
          touchMoved, dragging, dragPrev, dragVel, userRot, gRot, nInput,
          disposed, flightLayer, rafPending, vis, paused, rdy, loading,
          onReady, onFlightClick, readyCalls, delivered, renders, simT,
          gQuat, qTarget, trackTransition, camZ, targetCamZ, ms, mouse,
          camPos, win, netVars, listeners, removeCalls, created, released, arcs,
          ambientArcTimer, nTick, sinceSelect, gesture, zoomMemo>>

NoCall == [lat |-> 0, lng |-> 0, op |-> "new", L |-> <<>>, dt |-> 0,
           maxDeg |-> 0, res |-> NoId, speed |-> 0, at |-> <<0, 0>>]

\* the entity at position i of the live list
LiveAt(i) == heap[live[i]]

(* ===================== fixed-point geometry ============================ *)
\* Unit vectors, quaternions and trigonometric values are integers in
\* units of 1/Q; angles are integers in units of 1/Q radian.
Q == 10000
PiA == 31416
HalfPiA == 15708
TwoPiA == 62832

\* Math.sqrt, rounded down (Newton's iteration from above)
RECURSIVE SqrtFrom(_, _)
SqrtFrom(n, x) ==
  LET y == (x + n \div x) \div 2
  IN IF y >= x THEN x ELSE SqrtFrom(n, y)
Sqrt(n) == IF n <= 0 THEN 0 ELSE SqrtFrom(n, Min(n, 46340))

\* Math.sin on [0, pi/2] by its Taylor polynomial of degree 9
SinQuarter(x) ==
  LET x2 == (x * x) \div Q
      t3 == (x * x2) \div (6 * Q)
      t5 == (t3 * x2) \div (20 * Q)
      t7 == (t5 * x2) \div (42 * Q)
      t9 == (t7 * x2) \div (72 * Q)
  IN x - t3 + t5 - t7 + t9

\* Math.sin and Math.cos of an angle a
SinA(a) ==
  LET r == a % TwoPiA
  IN IF r <= HalfPiA THEN SinQuarter(r)
     ELSE IF r <= PiA THEN SinQuarter(PiA - r)
     ELSE IF r <= PiA + HalfPiA THEN -SinQuarter(r - PiA)
     ELSE -SinQuarter(TwoPiA - r)
CosA(a) == SinA(a + HalfPiA)

\* Math.atan on [0, 1] by a minimax polynomial of degree 9
AtanUnit(r) ==
  LET r2 == (r * r) \div Q
      p1 == -851 + (208 * r2) \div Q
      p2 == 1801 + TruncDiv(p1 * r2, Q)
      p3 == -3303 + TruncDiv(p2 * r2, Q)
      p4 == 9999 + TruncDiv(p3 * r2, Q)
  IN (r * p4) \div Q

\* Math.atan2(y, x), within (-pi, pi]
Atan2A(y, x) ==
  LET ay == Abs(y)
      ax == Abs(x)
      a == IF ax = 0 /\ ay = 0 THEN 0
           ELSE IF ay <= ax THEN AtanUnit((ay * Q) \div ax)
           ELSE HalfPiA - AtanUnit((ax * Q) \div ay)
      b == IF x >= 0 THEN a ELSE PiA - a
  IN IF y >= 0 THEN b ELSE -b

\* Math.asin(s) for -1 <= s <= 1
AsinA(s) == Atan2A(s, Sqrt(Q * Q - s * s))

\* an angle given in micro-degrees
RadOfDeg(d) == TruncDiv(d, 5730)

\* a quaternion is <<x, y, z, w>>, a vector <<x, y, z>>
QDot(a, b) == a[1] * b[1] + a[2] * b[2] + a[3] * b[3] + a[4] * b[4]

\* Quaternion.normalize
QNormalize(a) ==
  LET l == Sqrt(QDot(a, a))
  IN IF l = 0 THEN <<0, 0, 0, Q>>
     ELSE <<TruncDiv(a[1] * Q, l), TruncDiv(a[2] * Q, l),
            TruncDiv(a[3] * Q, l), TruncDiv(a[4] * Q, l)>>

\* Quaternion.multiplyQuaternions(a, b)
QMul(a, b) ==
  <<TruncDiv(a[1] * b[4] + a[4] * b[1] + a[2] * b[3] - a[3] * b[2], Q),
    TruncDiv(a[2] * b[4] + a[4] * b[2] + a[3] * b[1] - a[1] * b[3], Q),
    TruncDiv(a[3] * b[4] + a[4] * b[3] + a[1] * b[2] - a[2] * b[1], Q),
    TruncDiv(a[4] * b[4] - a[1] * b[1] - a[2] * b[2] - a[3] * b[3], Q)>>

\* Vector3.normalize
VNormalize(v) ==
  LET l == Sqrt(v[1] * v[1] + v[2] * v[2] + v[3] * v[3])
  IN IF l = 0 THEN <<0, 0, 0>>
     ELSE <<TruncDiv(v[1] * Q, l), TruncDiv(v[2] * Q, l), TruncDiv(v[3] * Q, l)>>

\* Quaternion.setFromUnitVectors(p, (0, 0, 1)): the shortest rotation that
\* takes the unit vector p onto the +Z axis
QCenter(p) ==
  LET r == p[3] + Q
  IN IF r < 1
     THEN IF Abs(p[1]) > Abs(p[3])
          THEN QNormalize(<<-p[2], p[1], 0, 0>>)
          ELSE QNormalize(<<0, -p[3], p[2], 0>>)
     ELSE QNormalize(<<p[2], -p[1], 0, r>>)

\* Quaternion.setFromAxisAngle((0, 0, 1), -0.18)
qTilt == <<0, 0, -SinA(900), CosA(900)>>

\* Quaternion.setFromEuler(x, y, z) in the order XYZ
QFromEuler(x, y, z) ==
  LET c1 == CosA(TruncDiv(x, 2))
      c2 == CosA(TruncDiv(y, 2))
      c3 == CosA(TruncDiv(z, 2))
      s1 == SinA(TruncDiv(x, 2))
      s2 == SinA(TruncDiv(y, 2))
      s3 == SinA(TruncDiv(z, 2))
      P(a, b, c) == TruncDiv(TruncDiv(a * b, Q) * c, Q)
  IN QNormalize(<<P(s1, c2, c3) + P(c1, s2, s3), P(c1, s2, c3) - P(s1, c2, s3),
                  P(c1, c2, s3) + P(s1, s2, c3), P(c1, c2, c3) - P(s1, s2, s3)>>)

\* Euler.setFromQuaternion(q, 'XYZ'): <<x, y, z>>
EulerOfQ(q) ==
  LET m11 == Q - TruncDiv(2 * (q[2] * q[2] + q[3] * q[3]), Q)
      m12 == TruncDiv(2 * (q[1] * q[2] - q[3] * q[4]), Q)
      m13 == TruncDiv(2 * (q[1] * q[3] + q[2] * q[4]), Q)
      m22 == Q - TruncDiv(2 * (q[1] * q[1] + q[3] * q[3]), Q)
      m23 == TruncDiv(2 * (q[2] * q[3] - q[1] * q[4]), Q)
      m32 == TruncDiv(2 * (q[2] * q[3] + q[1] * q[4]), Q)
      m33 == Q - TruncDiv(2 * (q[1] * q[1] + q[2] * q[2]), Q)
      c13 == Max(-Q, Min(Q, m13))
  IN IF Abs(m13) < Q
     THEN <<Atan2A(-m23, m33), AsinA(c13), Atan2A(-m12, m11)>>
     ELSE <<Atan2A(m32, m22), AsinA(c13), 0>>

\* the squared distance of two quaternions, in units of 1/Q^2; for unit
\* quaternions it is 2 - 2 cos(halfTheta)
QDist2(qa, qb) ==
  (qa[1] - qb[1]) * (qa[1] - qb[1]) + (qa[2] - qb[2]) * (qa[2] - qb[2])
  + (qa[3] - qb[3]) * (qa[3] - qb[3]) + (qa[4] - qb[4]) * (qa[4] - qb[4])

\* slerp's first step: qb, negated when the dot product is negative
QAlign(qa, qb) ==
  IF QDot(qa, qb) < 0 THEN <<-qb[1], -qb[2], -qb[3], -qb[4]>> ELSE qb

\* cosHalfTheta, sinHalfTheta and halfTheta of slerp from the squared distance
CosHalf(d2) == Q - TruncDiv(d2, 2 * Q)
SinHalf(d2) == Sqrt(d2 - TruncDiv(d2, 2 * Q) * TruncDiv(d2, 2 * Q))
HalfAngle(d2) == Atan2A(SinHalf(d2), CosHalf(d2))

SlerpMix(qa, qe, ra, rb) ==
  QNormalize(<<TruncDiv(qa[1] * ra + qe[1] * rb, Q),
               TruncDiv(qa[2] * ra + qe[2] * rb, Q),
               TruncDiv(qa[3] * ra + qe[3] * rb, Q),
               TruncDiv(qa[4] * ra + qe[4] * rb, Q)>>)
SlerpBy(qa, qe, t, sinHalf, halfTheta) ==
  SlerpMix(qa, qe, (SinA(((Q - t) * halfTheta) \div Q) * Q) \div sinHalf,
                   (SinA((t * halfTheta) \div Q) * Q) \div sinHalf)
SlerpAligned(qa, qe, t, d2) ==
  IF d2 = 0 THEN qa ELSE SlerpBy(qa, qe, t, SinHalf(d2), HalfAngle(d2))

\* an interpolation that stays at its first argument
SlerpStay(qa, qb, t) == qa

\* Quaternion.slerp(qb, t), t in units of 1/Q
Slerp(qa, qb, t) ==
  IF t = 0 THEN qa
  ELSE IF t >= Q THEN qb
  ELSE SlerpAligned(qa, QAlign(qa, qb), t, QDist2(qa, QAlign(qa, qb)))

\* the angle between two orientations: twice the angle between the quaternions
AngleBetween(qa, qb) == 2 * HalfAngle(QDist2(qa, QAlign(qa, qb)))

\* toCartesian(lat, lng, 1): the unit vector of a position in micro-degrees
latLngToVector3(lat, lng) ==
  LET phi == RadOfDeg(90 * Deg - lat)
      theta == RadOfDeg(lng + 180 * Deg)
  IN <<-TruncDiv(SinA(phi) * CosA(theta), Q), CosA(phi),
       TruncDiv(SinA(phi) * SinA(theta), Q)>>

(* ---------------------------- setFlights ------------------------------- *)
\* a map in which no id is found
OldMapNone(id) == 0

\* oldMap.get(id): the loop at line 154 overwrites, so the last live entry
\* with the id wins; 0 stands for undefined
OldMapGet(id) ==
  LET hits == {i \in 1..Len(live) : heap[live[i]].id = id}
  IN IF hits = {} THEN 0 ELSE live[CHOOSE i \in hits : \A j \in hits : j <= i]

\* old.lat += (f.lat - old.lat) * 0.3
Blend(old, new) == old + TruncDiv((new - old) * 3, 10)

\* lines 159-171: the existing object, mutated in place
Merged(old, f) ==
  [old EXCEPT !.hdg = f.hdg, !.vel = f.vel, !.vr = f.vr, !.alt = f.alt,
              !.cs = f.cs, !.origin = f.origin, !.squawk = f.squawk,
              !.cat = f.cat, !.lastContact = f.lastContact,
              !.baroAlt = f.baroAlt, !.spi = f.spi,
              !.lat = Blend(old.lat, f.lat), !.lng = Blend(old.lng, f.lng)]

\* lines 174-178: a new object holding the record's fields
Fresh(f) ==
  [id |-> f.id, lat |-> f.lat, lng |-> f.lng, alt |-> f.alt, vel |-> f.vel,
   hdg |-> f.hdg, vr |-> f.vr, cs |-> f.cs, origin |-> f.origin,
   squawk |-> f.squawk, cat |-> f.cat, lastContact |-> f.lastContact,
   baroAlt |-> f.baroAlt, spi |-> f.spi]

NewRef(h) == CHOOSE n \in 1..(Cardinality(DOMAIN h) + 1) : n \notin DOMAIN h

\* flights.map(...) of lines 156-179, record i onward; h is the heap so far
\* and acc the list built so far
RECURSIVE MapFlights(_, _, _, _)
MapFlights(L, i, h, acc) ==
  IF i > Len(L) THEN <<h, acc>>
  ELSE LET f == L[i]
           old == OldMapGet(f.id)
       IN IF old # 0
          THEN MapFlights(L, i + 1, [h EXCEPT ![old] = Merged(h[old], f)],
                          Append(acc, old))
          ELSE LET r == NewRef(h)
               IN MapFlights(L, i + 1,
                             [o \in DOMAIN h \cup {r} |->
                                IF o = r THEN Fresh(f) ELSE h[o]],
                             Append(acc, r))

Range(s) == {s[i] : i \in 1..Len(s)}

\* lines 153-179: the new live list and the objects it references
setFlightsEffect(L) ==
  LET m == MapFlights(L, 1, heap, <<>>)
  IN /\ live' = m[2]
     \* objects no longer referenced are unreachable
     /\ heap' = [o \in Range(m[2]) |-> m[1][o]]

setFlights(L) ==
  /\ nSnap < MaxSnapshots
  /\ setFlightsEffect(L)
  /\ nSnap' = nSnap + 1
  /\ last' = [NoCall EXCEPT !.op = "setFlights", !.L = L]
  /\ UNCHANGED <<selectedId, meshCount, instances, stems, stemDraw,
                 selVisible, selMatrix, selMap, nFrame>>
  /\ UNCHANGED engineVars
  /\ UNCHANGED sceneVars

(* --------------------------- setSelectedId ----------------------------- *)
setSelectedId(id) ==
  /\ selectedId' = id
  /\ last' = [NoCall EXCEPT !.op = "setSelectedId"]
  /\ UNCHANGED <<heap, live, meshCount, instances, stems, stemDraw,
                 selVisible, selMatrix, selMap, nSnap, nFrame>>
  /\ UNCHANGED engineVars
  /\ UNCHANGED sceneVars

(* ------------------------------ update --------------------------------- *)
DtSet == {16, 50}    \* frame deltas in ms: a 60 Hz frame and the engine's cap

\* Math.cos, Math.sin of hdg * DEG_TO_RAD, times 1000, for headings that are
\* multiples of 30 degrees
CosTable == <<1000, 866, 500, 0, -500, -866, -1000, -866, -500, 0, 500, 866>>
SinTable == <<0, 500, 866, 1000, 866, 500, 0, -500, -866, -1000, -866, -500>>
Cos1000(hdg) == CosTable[((hdg % 360) \div 30) + 1]
Sin1000(hdg) == SinTable[((hdg % 360) \div 30) + 1]

\* Math.cos(f.lat * DEG_TO_RAD), times 10000 (line 191), by Bhaskara's
\* rational approximation cos x = (180^2 - 4x^2) / (180^2 + x^2), x in
\* degrees: within 0.2 percent on [-90, 90], zero at +/-90, negative beyond
CosLatE4(lat) ==
  LET x == TruncDiv(lat, 10000)
  IN TruncDiv(324000000 - 4 * x * x, (324000000 + x * x) \div 10000)

\* const velMs = f.vel * 0.5144 (line 192), in units of 0.0001 m/s
velMs(vel) == vel * 5144

\* velMs * dt: the distance covered, in units of 0.0001 m
Travel(f, dt) == TruncDiv(velMs(f.vel) * dt, 1000)

\* line 193: dLat = velMs * cos(hdgRad) * dt / 111320
dLat(f, dt) == TruncDiv(Travel(f, dt) * Cos1000(f.hdg), 1113200)

\* lines 194-196: dLng = cosLat > 0.001 ? velMs * sin(hdgRad) * dt /
\* (111320 * cosLat) : 0
dLng(f, dt) ==
  LET cosLat == CosLatE4(f.lat)
  IN IF cosLat > 10
     THEN TruncDiv(Travel(f, dt) * Sin1000(f.hdg) * 25, cosLat * 2783)
     ELSE 0

\* the longitude left as integrated, without the re-wrap
WrapLngNone(lng) == lng

\* lines 200-201
WrapLng(lng) ==
  LET l1 == IF lng > 180 * Deg THEN lng - 360 * Deg ELSE lng
  IN IF l1 < -180 * Deg THEN l1 + 360 * Deg ELSE l1

\* lines 190-201 for one entity
Integrate(f, dt) ==
  [f EXCEPT !.lat = f.lat + dLat(f, dt), !.lng = WrapLng(f.lng + dLng(f, dt))]

\* the loop of line 189 from list position i on: an object referenced twice
\* by the list is integrated twice
RECURSIVE IntegrateAll(_, _, _)
IntegrateAll(h, i, dt) ==
  IF i > Len(live) THEN h
  ELSE IntegrateAll([h EXCEPT ![live[i]] = Integrate(h[live[i]], dt)], i + 1, dt)

(* ------------------------- _rebuildInstances --------------------------- *)
\* _computeBasis: the matrix is a function of (lat, lng, hdg, alt, scale);
\* scale is in hundredths.  fi is not part of the matrix: it records the
\* list position the slot was computed from.
Basis(f, sc) == [lat |-> f.lat, lng |-> f.lng, alt |-> f.alt, hdg |-> f.hdg,
                 scale |-> sc]
Slot(f, sc, i) == [lat |-> f.lat, lng |-> f.lng, alt |-> f.alt, hdg |-> f.hdg,
                   scale |-> sc, fi |-> i]
\* makeScale(0, 0, 0)
ZeroSlot(i) == [lat |-> 0, lng |-> 0, alt |-> 0, hdg |-> 0, scale |-> 0,
                fi |-> i]

Classes == 0..(PLANE_CLASS_COUNT - 1)

\* lines 219-221: the list positions 1..total of class c, ascending
RECURSIVE BucketFrom(_, _, _, _)
BucketFrom(h, c, i, total) ==
  IF i > total THEN <<>>
  ELSE IF classifyFlight(h[live[i]].cat) = c
       THEN <<i>> \o BucketFrom(h, c, i + 1, total)
       ELSE BucketFrom(h, c, i + 1, total)

Total(n) == Min(n, MAX_INSTANCES)

Bucket(h, c) == BucketFrom(h, c, 1, Total(Len(live)))

\* the slots written for class c (lines 232-265)
BucketSlots(h, c) ==
  LET b == Bucket(h, c)
  IN [mi \in 1..Len(b) |->
        IF h[live[b[mi]]].id = selectedId
        THEN ZeroSlot(b[mi])
        ELSE Slot(h[live[b[mi]]], 12, b[mi])]

\* the stem written for list position i (lines 240-247)
Stem(h, i) == [lat |-> h[live[i]].lat, lng |-> h[live[i]].lng,
               alt |-> h[live[i]].alt]

\* the processing order of the two nested loops: class-major
DrawOrder(h) == Bucket(h, 0) \o Bucket(h, 1) \o Bucket(h, 2)

\* the positions in processing order whose entity is the selected one
SelHits(h) ==
  LET d == DrawOrder(h)
  IN {k \in 1..Len(d) : h[live[d[k]]].id = selectedId}

rebuildInstances(h) ==
  LET d == DrawOrder(h)
      hits == SelHits(h)
      lastHit == CHOOSE k \in hits : \A j \in hits : j <= k
  IN /\ meshCount' = [c \in Classes |-> Len(Bucket(h, c))]
     /\ instances' = [c \in Classes |-> BucketSlots(h, c)]
     /\ stems' = [k \in 1..Len(d) |-> Stem(h, d[k])]
     /\ stemDraw' = Len(d) * 2
     /\ IF hits # {}
        THEN /\ selVisible' = TRUE
             /\ selMap' = classifyFlight(h[live[d[lastHit]]].cat)
             /\ selMatrix' = Basis(h[live[d[lastHit]]], 30)
        ELSE /\ selVisible' = FALSE
             /\ UNCHANGED <<selMap, selMatrix>>

\* lines 187-204: what update(dt) does to the layer
updateEffect(dt) ==
  IF Len(live) = 0
  THEN UNCHANGED <<heap, meshCount, instances, stems, stemDraw,
                   selVisible, selMatrix, selMap>>
  ELSE LET h == IntegrateAll(heap, 1, dt)
       IN /\ heap' = h
          /\ rebuildInstances(h)

update(dt) ==
  /\ nFrame < MaxFrames
  /\ nFrame' = nFrame + 1
  /\ last' = [NoCall EXCEPT !.op = "update", !.dt = dt]
  /\ UNCHANGED <<live, selectedId, nSnap>>
  /\ UNCHANGED engineVars
  /\ UNCHANGED sceneVars
  /\ updateEffect(dt)

(* ----------------------------- findNearest ----------------------------- *)
\* Squared degree distances exceed the model's integer width, so a square
\* is kept as the pair <<hi, lo>> standing for hi * 10^8 + lo, 0 <= lo < 10^8.
WBase == 100000000

WNorm(hi, lo) == <<hi + lo \div WBase, lo % WBase>>

WSq(d) ==
  LET a == Abs(d) \div 10000
      b == Abs(d) % 10000
      mid == 2 * a * b
  IN WNorm(a * a + mid \div 10000, (mid % 10000) * 10000 + b * b)

WAdd(p, q) == WNorm(p[1] + q[1], p[2] + q[2])

WLess(p, q) == p[1] < q[1] \/ (p[1] = q[1] /\ p[2] < q[2])

\* the squared distance without the correction of the longitude difference
DistSqPlain(f, lat, lng) == WAdd(WSq(f.lat - lat), WSq(f.lng - lng))

\* lines 329-333: the squared distance of entity f from (lat, lng)
DistSq(f, lat, lng) ==
  LET d0 == f.lng - lng
      d1 == IF d0 > 180 * Deg THEN d0 - 360 * Deg ELSE d0
      d2 == IF d1 < -180 * Deg THEN d1 + 360 * Deg ELSE d1
  IN WAdd(WSq(f.lat - lat), WSq(d2))

\* the loop of lines 328-338 from list position i on
RECURSIVE NearestFrom(_, _, _, _, _)
NearestFrom(i, lat, lng, bestId, bestDist) ==
  IF i > Len(live) THEN bestId
  ELSE LET dist == DistSq(LiveAt(i), lat, lng)
       IN IF WLess(dist, bestDist)
          THEN NearestFrom(i + 1, lat, lng, LiveAt(i).id, dist)
          ELSE NearestFrom(i + 1, lat, lng, bestId, bestDist)

FindNearest(lat, lng, maxDeg) == NearestFrom(1, lat, lng, NoId, WSq(maxDeg))

\* the points asked about, <<lat, lng>>
Queries == {<<-1 * Deg, -179 * Deg>>, <<-3 * Deg, 179 * Deg>>,
            <<0, 175 * Deg>>}
\* the engine's click threshold (GlobeEngine._boundClick)
PickDeg == 5 * Deg

findNearest(lat, lng, maxDeg) ==
  /\ last' = [NoCall EXCEPT !.lat = lat, !.lng = lng, !.op = "findNearest",
                            !.maxDeg = maxDeg,
                            !.res = FindNearest(lat, lng, maxDeg)]
  /\ UNCHANGED <<heap, live, selectedId, meshCount, instances, stems,
                 stemDraw, selVisible, selMatrix, selMap, nSnap, nFrame>>
  /\ UNCHANGED engineVars
  /\ UNCHANGED sceneVars

(* ===================== GlobeEngine: zoom and touch ===================== *)
MaxInputs == 4       \* input events and engine calls in one behaviour

\* the clamp without its upper limit
ClampZoomLow(z) == Max(6500, z)

\* Math.max(6.5, Math.min(30, z))
ClampZoom(z) == Max(6500, Min(30000, z))
\* Math.max(-1.5, Math.min(1.5, x))
ClampPitch(x) == Max(-15000, Min(15000, x))

\* Math.sqrt of a sum of squares of pixel differences, to whole pixels
ISqrt(n) == CHOOSE r \in 0..600 : r * r <= n /\ n < (r + 1) * (r + 1)
Dist(p, q) == ISqrt((p[1] - q[1]) * (p[1] - q[1]) + (p[2] - q[2]) * (p[2] - q[2]))

fixedLayer == <<heap, live, meshCount, instances, stems, stemDraw, selVisible,
                selMatrix, selMap, nSnap, nFrame>>

\* the scene variables no input handler writes
fixedScene == <<disposed, flightLayer, rafPending, vis, paused, rdy, loading,
                onReady, readyCalls, renders, simT, gQuat, qTarget,
                trackTransition, camZ, targetCamZ, ms, camPos, win, netVars, listeners,
                removeCalls, created, released, arcs, ambientArcTimer, nTick>>

Counted(opName) ==
  /\ nInput < MaxInputs
  /\ nInput' = nInput + 1
  /\ last' = [NoCall EXCEPT !.op = opName]

\* _boundWheel (lines 238-252); 0.008 zoom units per pixel
Wheel(deltaY, deltaMode) ==
  /\ Counted("wheel")
  /\ LET delta == IF deltaMode = 1 THEN deltaY * 16
                  ELSE IF deltaMode = 2 THEN deltaY * 100
                  ELSE deltaY
     IN userZoom' = ClampZoom(userZoom + delta * 8)
  /\ UNCHANGED <<selectedFlight, prevTrackedId, preTrackZoom, trackingZoom,
                 touchStartDist, touchStartZoom, touchStart, touchMoved,
                 dragging, dragPrev, dragVel, userRot, gRot, selectedId>>
  /\ UNCHANGED fixedLayer
  /\ UNCHANGED sceneVars

\* a zoomIn that remembers the zoom target it finds, every time
ZoomInForgetful ==
  /\ preTrackZoom' = userZoom
  /\ trackingZoom' = TRUE
  /\ userZoom' = Min(userZoom, 9000)
  /\ zoomMemo' = IF zoomMemo = -1 THEN userZoom ELSE zoomMemo

\* zoomIn (lines 1284-1290), as a conjunct over the zoom variables
ZoomInEffect ==
  /\ preTrackZoom' = IF trackingZoom THEN preTrackZoom ELSE userZoom
  /\ trackingZoom' = TRUE
  /\ userZoom' = Min(userZoom, 9000)
  /\ zoomMemo' = IF zoomMemo = -1 THEN userZoom ELSE zoomMemo

zoomIn ==
  /\ Counted("zoomIn")
  /\ ZoomInEffect
  /\ UNCHANGED <<selectedFlight, prevTrackedId, touchStartDist, touchStartZoom,
                 touchStart, touchMoved, dragging, dragPrev, dragVel, userRot,
                 gRot, selectedId>>
  /\ UNCHANGED fixedLayer
  /\ UNCHANGED fixedScene
  /\ UNCHANGED <<onFlightClick, delivered, mouse, sinceSelect, gesture>>

\* stepZoom (lines 1293-1295)
stepZoom(delta) ==
  /\ Counted("stepZoom")
  /\ userZoom' = ClampZoom(userZoom + delta)
  /\ UNCHANGED <<selectedFlight, prevTrackedId, preTrackZoom, trackingZoom,
                 touchStartDist, touchStartZoom, touchStart, touchMoved,
                 dragging, dragPrev, dragVel, userRot, gRot, selectedId>>
  /\ UNCHANGED fixedLayer
  /\ UNCHANGED sceneVars

\* setSelectedFlight (lines 1252-1281); f is the id of the FlightData or NoId
setSelectedFlight(f) ==
  /\ Counted("setSelectedFlight")
  /\ selectedFlight' = f
  /\ selectedId' = IF flightLayer THEN f ELSE selectedId
  /\ zoomMemo' = IF f = NoId THEN -1 ELSE zoomMemo
  /\ IF f = NoId
     THEN /\ prevTrackedId' = NoId
          /\ IF selectedFlight # NoId
             THEN /\ userRot' = <<EulerOfQ(gQuat)[1] - 1200, EulerOfQ(gQuat)[2]>>
                  /\ dragVel' = <<0, 0>>
             ELSE UNCHANGED <<userRot, dragVel>>
          /\ IF trackingZoom
             THEN /\ userZoom' = preTrackZoom
                  /\ trackingZoom' = FALSE
             ELSE UNCHANGED <<userZoom, trackingZoom>>
     ELSE UNCHANGED <<prevTrackedId, userRot, dragVel, userZoom, trackingZoom>>
  /\ sinceSelect' = IF f = selectedFlight THEN sinceSelect
                    ELSE IF f # NoId /\ selectedFlight # NoId
                            /\ prevTrackedId = selectedFlight
                    THEN 0 ELSE -1
  /\ UNCHANGED <<preTrackZoom, touchStartDist, touchStartZoom, touchStart,
                 touchMoved, dragging, dragPrev, gRot>>
  /\ UNCHANGED fixedLayer
  /\ UNCHANGED fixedScene
  /\ UNCHANGED <<onFlightClick, delivered, mouse, gesture>>

\* _boundTouchStart (lines 255-275); ts is e.touches, a list of <<x, y>>
TouchStart(ts) ==
  /\ Counted("touchStart")
  /\ IF Len(ts) = 1
     THEN /\ dragging' = FALSE
          /\ touchMoved' = FALSE
          /\ touchStart' = ts[1]
          /\ dragPrev' = ts[1]
          /\ dragVel' = <<0, 0>>
          /\ UNCHANGED <<touchStartDist, touchStartZoom>>
     ELSE IF Len(ts) = 2
     THEN /\ dragging' = FALSE
          /\ touchMoved' = TRUE
          /\ touchStartDist' = Dist(ts[1], ts[2])
          /\ touchStartZoom' = userZoom
          /\ UNCHANGED <<touchStart, dragPrev, dragVel>>
     ELSE UNCHANGED <<dragging, touchMoved, touchStart, dragPrev, dragVel,
                      touchStartDist, touchStartZoom>>
  /\ gesture' = IF Len(ts) = 1 THEN <<1, ts[1], FALSE, FALSE, 0, <<>>, <<>>>>
                ELSE <<Len(ts), gesture[2], gesture[3], TRUE, gesture[5],
                       <<userZoom, ts>>, ts>>
  /\ UNCHANGED <<selectedFlight, prevTrackedId, userZoom, preTrackZoom,
                 trackingZoom, userRot, gRot, selectedId>>
  /\ UNCHANGED fixedLayer
  /\ UNCHANGED fixedScene
  /\ UNCHANGED <<onFlightClick, delivered, mouse, sinceSelect, zoomMemo>>

\* a velocity, in 1/100000 radian, as a rotation step in 1/10000 radian
RotOfVel(v) == TruncDiv(v, 10)

\* a pinch that adds each move's change to the zoom it finds
pinchZoomOnto(z0, d0, d) == ClampZoom(userZoom + (d0 - d) * 60)

\* lines 311-312: the zoom of a pinch from zoom z0 and distance d0, at distance d
pinchZoom(z0, d0, d) == ClampZoom(z0 + (d0 - d) * 60)

\* a touch as sensitive as the mouse, 0.004 rad per pixel
touchVelMouse(px) == px * 400

\* lines 292-294: the velocity of a touch move of px pixels, 0.002 rad per pixel
touchVel(px) == px * 200

\* a tap threshold no movement exceeds
exceedsTapNever(dx, dy) == FALSE

\* dist > 8 for the displacement (dx, dy) from the touch-start point (line 283)
exceedsTap(dx, dy) == dx * dx + dy * dy > 64

\* _boundTouchMove (lines 276-315); 0.002 rad and 0.06 zoom units per pixel;
\* the ghost gesture[5] sums the horizontal offset changes of the gesture's moves
TouchMove(ts) ==
  /\ nInput < MaxInputs
  /\ nInput' = nInput + 1
  /\ last' = [NoCall EXCEPT !.op = "touchMove",
                            !.res = IF Len(ts) = 1 THEN "finger" ELSE "pinch",
                            !.L = ts,
                            !.at = IF Len(ts) > 0 THEN ts[1] ELSE <<0, 0>>]
  /\ IF Len(ts) = 1
     THEN LET dx == ts[1][1] - touchStart[1]
              dy == ts[1][2] - touchStart[2]
              starts == ~touchMoved /\ exceedsTap(dx, dy)
              drag == IF starts THEN TRUE ELSE dragging
              vel == <<touchVel(ts[1][1] - dragPrev[1]),
                       touchVel(ts[1][2] - dragPrev[2])>>
          IN /\ touchMoved' = IF starts THEN TRUE ELSE touchMoved
             /\ dragging' = drag
             /\ IF drag
                THEN /\ dragVel' = vel
                     /\ userRot' = <<ClampPitch(userRot[1] + RotOfVel(vel[2])),
                                     userRot[2] + RotOfVel(vel[1])>>
                     /\ dragPrev' = ts[1]
                ELSE UNCHANGED <<dragVel, userRot, dragPrev>>
             /\ UNCHANGED userZoom
     ELSE IF Len(ts) = 2
     THEN /\ IF touchStartDist > 0
             THEN userZoom' = pinchZoom(touchStartZoom, touchStartDist,
                                        Dist(ts[1], ts[2]))
             ELSE UNCHANGED userZoom
          /\ UNCHANGED <<touchMoved, dragging, dragVel, userRot, dragPrev>>
     ELSE UNCHANGED <<touchMoved, dragging, dragVel, userRot, dragPrev, userZoom>>
  /\ gesture' =
       [gesture EXCEPT ![3] =
          @ \/ (Len(ts) = 1
                /\ (ts[1][1] - gesture[2][1]) * (ts[1][1] - gesture[2][1])
                   + (ts[1][2] - gesture[2][2]) * (ts[1][2] - gesture[2][2]) > 64),
                       ![5] = @ + userRot'[2] - userRot[2],
                       ![7] = IF gesture[4] THEN ts ELSE @]
  /\ UNCHANGED <<selectedFlight, prevTrackedId, preTrackZoom, trackingZoom,
                 touchStartDist, touchStartZoom, touchStart, gRot, selectedId>>
  /\ UNCHANGED fixedLayer
  /\ UNCHANGED fixedScene
  /\ UNCHANGED <<onFlightClick, delivered, mouse, sinceSelect, zoomMemo>>

(* ------------------------------ picking -------------------------------- *)
TanHalfFov == 3640     \* tan of half the camera's 40 degree field of view
HitRadius == 5100      \* R * 1.02, thousandths

VDot(a, b) == a[1] * b[1] + a[2] * b[2] + a[3] * b[3]

\* Camera.lookAt(0, 0, 0) from position o with up = +Y: the camera's axes
\* <<x, y, z>>, z pointing from the origin to the camera
CameraUp(zc, xc) ==
  <<xc,
    <<TruncDiv(zc[2] * xc[3] - zc[3] * xc[2], Q),
      TruncDiv(zc[3] * xc[1] - zc[1] * xc[3], Q),
      TruncDiv(zc[1] * xc[2] - zc[2] * xc[1], Q)>>,
    zc>>
CameraSide(zc) == CameraUp(zc, VNormalize(<<zc[3], 0, -zc[1]>>))
CameraAxes(o) == CameraSide(VNormalize(o))

\* lines 209-210: the click in normalized device coordinates, in 1/Q
clickNDC(pt) ==
  <<TruncDiv(pt[1] * 2 * Q, win[1]) - Q, Q - TruncDiv(pt[2] * 2 * Q, win[2])>>

\* Raycaster.setFromCamera (line 213): the ray's unit direction, from the
\* direction dc in the camera's frame
RayToWorld(ax, dc) ==
  VNormalize([i \in 1..3 |->
    TruncDiv(ax[1][i] * dc[1] + ax[2][i] * dc[2] + ax[3][i] * dc[3], Q)])
RayOfNDC(n) ==
  RayToWorld(CameraAxes(camPos),
             VNormalize(<<TruncDiv(TruncDiv(n[1] * TanHalfFov, Q) * win[1], win[2]),
                          TruncDiv(n[2] * TanHalfFov, Q), -Q>>))
RayDir(pt) == RayOfNDC(clickNDC(pt))

\* Ray.intersectSphere (line 222) with the hit sphere at the origin: the hit
\* point in thousandths, or <<>> when the ray misses
HitAt(dir, t) == [i \in 1..3 |-> camPos[i] + TruncDiv(dir[i] * t, Q)]
HitNear(dir, tca, thc) ==
  IF tca + thc < 0 THEN <<>>
  ELSE HitAt(dir, IF tca - thc < 0 THEN tca + thc ELSE tca - thc)
HitChord(dir, tca, d2) ==
  IF d2 > HitRadius * HitRadius THEN <<>>
  ELSE HitNear(dir, tca, Sqrt(HitRadius * HitRadius - d2))
HitAlong(dir, tca) == HitChord(dir, tca, VDot(camPos, camPos) - tca * tca)
HitOfRay(dir) == HitAlong(dir, -TruncDiv(VDot(camPos, dir), Q))
HitPoint(pt) == HitOfRay(RayDir(pt))

\* the rotation matrix of a quaternion, by rows
RotMatrix(q) ==
  <<<<Q - TruncDiv(2 * (q[2] * q[2] + q[3] * q[3]), Q),
      TruncDiv(2 * (q[1] * q[2] - q[3] * q[4]), Q),
      TruncDiv(2 * (q[1] * q[3] + q[2] * q[4]), Q)>>,
    <<TruncDiv(2 * (q[1] * q[2] + q[3] * q[4]), Q),
      Q - TruncDiv(2 * (q[1] * q[1] + q[3] * q[3]), Q),
      TruncDiv(2 * (q[2] * q[3] - q[1] * q[4]), Q)>>,
    <<TruncDiv(2 * (q[1] * q[3] - q[2] * q[4]), Q),
      TruncDiv(2 * (q[2] * q[3] + q[1] * q[4]), Q),
      Q - TruncDiv(2 * (q[1] * q[1] + q[2] * q[2]), Q)>>>>

\* lines 225-232: the hit point in the globe's frame, as <<lat, lng>>
WrapPickLng(lat, lng0) ==
  <<lat, IF lng0 < -180 * Deg THEN lng0 + 360 * Deg ELSE lng0>>
LatLngAt(loc, r) ==
  WrapPickLng(AsinA(Max(-Q, Min(Q, TruncDiv(loc[2] * Q, r)))) * 5730,
              Atan2A(loc[3], -loc[1]) * 5730 - 180 * Deg)
LatLngOfLocal(loc) == LatLngAt(loc, Sqrt(VDot(loc, loc)))
ToLocal(m, h) ==
  [i \in 1..3 |-> TruncDiv(m[1][i] * h[1] + m[2][i] * h[2] + m[3][i] * h[3], Q)]
LatLngOfHit(h) == LatLngOfLocal(ToLocal(RotMatrix(gQuat), h))

\* what a click at pixel pt resolves to in _boundClick (lines 206-237):
\* "unwired" without a flight layer or callback, "miss" when the ray misses
\* the hit sphere, else the nearest id or NoId
NearestAt(g) == FindNearest(g[1], g[2], PickDeg)
PickOfHit(h) == IF h = <<>> THEN "miss" ELSE NearestAt(LatLngOfHit(h))
ClickResult(pt) ==
  IF ~flightLayer \/ ~onFlightClick THEN "unwired" ELSE PickOfHit(HitPoint(pt))

\* the end of _boundClick with the callback of Globe.tsx lines 43-46: the id
\* or null is passed on, and an id also zooms in
Deliver(r) ==
  IF r \in {"unwired", "miss"}
  THEN UNCHANGED <<delivered, preTrackZoom, trackingZoom, userZoom, zoomMemo>>
  ELSE /\ delivered' = Append(delivered, r)
       /\ IF r # NoId
          THEN ZoomInEffect
          ELSE UNCHANGED <<preTrackZoom, trackingZoom, userZoom, zoomMemo>>

\* the click listener: _boundClick (lines 206-237)
Click(button, pt) ==
  /\ nInput < MaxInputs
  /\ nInput' = nInput + 1
  /\ IF button = 0
     THEN \E r \in {ClickResult(pt)} :
            /\ Deliver(r)
            /\ last' = [NoCall EXCEPT !.op = "click", !.res = r, !.at = pt]
     ELSE /\ UNCHANGED <<delivered, preTrackZoom, trackingZoom, userZoom,
                         zoomMemo>>
          /\ last' = [NoCall EXCEPT !.op = "click", !.res = "ignored", !.at = pt]
  /\ UNCHANGED <<selectedFlight, prevTrackedId, touchStartDist, touchStartZoom,
                 touchStart, touchMoved, dragging, dragPrev, dragVel, userRot,
                 gRot, selectedId>>
  /\ UNCHANGED fixedLayer
  /\ UNCHANGED fixedScene
  /\ UNCHANGED <<onFlightClick, mouse, sinceSelect, gesture>>

\* of the touch points seen, those of the fingers that were not lifted
StillDown(seen, changed) ==
  SelectSeq(seen, LAMBDA p : \A k \in 1..Len(changed) : changed[k] # p)

\* _boundTouchEnd (lines 316-329): a release without a drag runs _boundClick
\* at the release point
TouchEnd(changed) ==
  /\ nInput < MaxInputs
  /\ nInput' = nInput + 1
  /\ IF ~touchMoved /\ Len(changed) > 0
     THEN \E r \in {ClickResult(changed[1])} :
            /\ Deliver(r)
            /\ last' = [NoCall EXCEPT !.op = "tap", !.res = r,
                                      !.at = changed[1]]
     ELSE /\ last' = [NoCall EXCEPT !.op = "touchEnd"]
          /\ UNCHANGED <<delivered, preTrackZoom, trackingZoom, userZoom,
                         zoomMemo>>
  /\ dragging' = FALSE
  /\ touchStartDist' = 0
  /\ touchMoved' = FALSE
  /\ gesture' = [gesture EXCEPT ![1] = Max(0, @ - Len(changed)),
                                ![7] = StillDown(@, changed)]
  /\ UNCHANGED <<selectedFlight, prevTrackedId, touchStartZoom, touchStart,
                 dragPrev, dragVel, userRot, gRot, selectedId>>
  /\ UNCHANGED fixedLayer
  /\ UNCHANGED fixedScene
  /\ UNCHANGED <<onFlightClick, mouse, sinceSelect>>

(* --------------------------- mouse and page ---------------------------- *)
\* _boundMouseMove (lines 168-184); 0.004 rad per pixel
MouseMove(pt) ==
  /\ Counted("mouseMove")
  /\ mouse' = <<TruncDiv(pt[1] * 2 * Q, win[1]) - Q,
               TruncDiv(pt[2] * 2 * Q, win[2]) - Q>>
  /\ IF dragging
     THEN LET vel == <<(pt[1] - dragPrev[1]) * 400, (pt[2] - dragPrev[2]) * 400>>
          IN /\ dragVel' = vel
             /\ userRot' = <<ClampPitch(userRot[1] + RotOfVel(vel[2])),
                             userRot[2] + RotOfVel(vel[1])>>
             /\ dragPrev' = pt
     ELSE UNCHANGED <<dragVel, userRot, dragPrev>>
  /\ UNCHANGED <<selectedFlight, prevTrackedId, userZoom, preTrackZoom,
                 trackingZoom, touchStartDist, touchStartZoom, touchStart,
                 touchMoved, dragging, gRot, selectedId>>
  /\ UNCHANGED fixedLayer
  /\ UNCHANGED fixedScene
  /\ UNCHANGED <<onFlightClick, delivered, sinceSelect, gesture, zoomMemo>>

\* _boundMouseDown (lines 185-193): the right button starts a drag
MouseDown(button, pt) ==
  /\ Counted("mouseDown")
  /\ IF button = 2
     THEN /\ dragging' = TRUE
          /\ dragPrev' = pt
          /\ dragVel' = <<0, 0>>
     ELSE UNCHANGED <<dragging, dragPrev, dragVel>>
  /\ UNCHANGED <<selectedFlight, prevTrackedId, userZoom, preTrackZoom,
                 trackingZoom, touchStartDist, touchStartZoom, touchStart,
                 touchMoved, userRot, gRot, selectedId>>
  /\ UNCHANGED fixedLayer
  /\ UNCHANGED sceneVars

\* _boundMouseUp and _boundMouseLeave (lines 194-199)
MouseUp ==
  /\ Counted("mouseUp")
  /\ dragging' = FALSE
  /\ UNCHANGED <<selectedFlight, prevTrackedId, userZoom, preTrackZoom,
                 trackingZoom, touchStartDist, touchStartZoom, touchStart,
                 touchMoved, dragPrev, dragVel, userRot, gRot, selectedId>>
  /\ UNCHANGED fixedLayer
  /\ UNCHANGED sceneVars

\* _boundMouseLeave (line 199)
MouseLeave ==
  /\ Counted("mouseLeave")
  /\ dragging' = FALSE
  /\ UNCHANGED <<selectedFlight, prevTrackedId, userZoom, preTrackZoom,
                 trackingZoom, touchStartDist, touchStartZoom, touchStart,
                 touchMoved, dragPrev, dragVel, userRot, gRot, selectedId>>
  /\ UNCHANGED fixedLayer
  /\ UNCHANGED sceneVars

\* _boundVisChange (lines 201-204)
VisChange(hidden) ==
  /\ Counted("visChange")
  /\ vis' = ~hidden
  /\ UNCHANGED <<selectedFlight, prevTrackedId, userZoom, preTrackZoom,
                 trackingZoom, touchStartDist, touchStartZoom, touchStart,
                 touchMoved, dragging, dragPrev, dragVel, userRot, gRot,
                 selectedId>>
  /\ UNCHANGED fixedLayer
  /\ UNCHANGED <<disposed, flightLayer, rafPending, paused, rdy, loading,
                 onReady, onFlightClick, readyCalls, delivered, renders, simT,
                 gQuat, qTarget, trackTransition, camZ, targetCamZ, ms, mouse,
                 camPos, win, netVars, listeners, removeCalls, created, released, arcs,
                 ambientArcTimer, nTick, sinceSelect, gesture, zoomMemo>>

(* ---------------------------- public calls ----------------------------- *)
\* the engine variables of the zoom, touch and rotation state
inputState == <<selectedFlight, prevTrackedId, userZoom, preTrackZoom,
                trackingZoom, touchStartDist, touchStartZoom, touchStart,
                touchMoved, dragging, dragPrev, dragVel, userRot, gRot>>

\* GlobeEngine.setFlights (lines 1238-1240)
GlobeEngine_setFlights(L) ==
  /\ nSnap < MaxSnapshots
  /\ nSnap' = nSnap + 1
  /\ last' = [NoCall EXCEPT !.op = "engine.setFlights", !.L = L]
  /\ IF flightLayer THEN setFlightsEffect(L) ELSE UNCHANGED <<heap, live>>
  /\ UNCHANGED <<selectedId, meshCount, instances, stems, stemDraw, selVisible,
                 selMatrix, selMap, nFrame>>
  /\ UNCHANGED engineVars
  /\ UNCHANGED sceneVars

\* setOnFlightClick (lines 1242-1244); cb: a callback or null
setOnFlightClick(cb) ==
  /\ Counted("setOnFlightClick")
  /\ onFlightClick' = cb
  /\ UNCHANGED inputState
  /\ UNCHANGED selectedId
  /\ UNCHANGED fixedLayer
  /\ UNCHANGED fixedScene
  /\ UNCHANGED <<delivered, mouse, sinceSelect, gesture, zoomMemo>>

\* a registration that never runs the callback itself
firesNever(cb) == FALSE

\* line 1248: if (cb && this.rdy) cb()
firesNow(cb) == cb /\ rdy

\* setOnReady (lines 1246-1249): a callback set on a ready engine runs at once
setOnReady(cb) ==
  /\ Counted("setOnReady")
  /\ onReady' = cb
  /\ readyCalls' = IF firesNow(cb) THEN readyCalls + 1 ELSE readyCalls
  /\ UNCHANGED inputState
  /\ UNCHANGED selectedId
  /\ UNCHANGED fixedLayer
  /\ UNCHANGED <<disposed, flightLayer, rafPending, vis, paused, rdy, loading,
                 onFlightClick, delivered, renders, simT, gQuat, qTarget,
                 trackTransition, camZ, targetCamZ, ms, mouse, camPos, win, netVars,
                 listeners, removeCalls, created, released, arcs,
                 ambientArcTimer, nTick, sinceSelect, gesture, zoomMemo>>

\* togglePause (line 1297)
togglePause ==
  /\ Counted("togglePause")
  /\ paused' = ~paused
  /\ UNCHANGED inputState
  /\ UNCHANGED selectedId
  /\ UNCHANGED fixedLayer
  /\ UNCHANGED <<disposed, flightLayer, rafPending, vis, rdy, loading,
                 onReady, onFlightClick, readyCalls, delivered, renders, simT,
                 gQuat, qTarget, trackTransition, camZ, targetCamZ, ms, mouse,
                 camPos, win, netVars, listeners, removeCalls, created, released, arcs,
                 ambientArcTimer, nTick, sinceSelect, gesture, zoomMemo>>

(* ------------------------ resources and disposal ----------------------- *)
\* the listeners of _setupEvents (lines 1063-1076)
Events == {"mousemove", "mousedown", "mouseup", "mouseleave", "resize",
           "visibilitychange", "contextmenu", "wheel", "click", "touchstart",
           "touchmove", "touchend"}

\* what the constructor creates in the bloomed scene and the bloom pass
\* (_init, _stars ... _bloom, lines 345-382)
SceneResources == {"renderer", "scene.geometries", "scene.materials",
                   "bloom.renderTarget", "bloom.composer"}
\* what the FlightLayer constructor creates (FlightLayer.ts lines 80-150)
LayerResources == {"layer.planeGeometry", "layer.materials", "layer.textures",
                   "layer.selTextures", "layer.selGeometry", "layer.selMaterial",
                   "layer.stemGeometry", "layer.stemMaterial",
                   "layer.depthGeometry", "layer.depthMaterial"}
\* what _loadCountries creates: the outline overlay scene (_outlines) and,
\* from fetched data, the land-mask texture (_buildLandTexture)
OutlineResources == {"outline.geometries", "outline.materials"}
LandResources == {"landTexture"}
Resources == SceneResources \cup LayerResources \cup OutlineResources
               \cup LandResources

\* FlightLayer.dispose (lines 393-413): the dispose() calls each resource
\* receives; the three class meshes share one plane geometry
LayerDisposeCalls(r) ==
  IF r = "layer.planeGeometry" THEN PLANE_CLASS_COUNT
  ELSE IF r \in LayerResources THEN 1 ELSE 0

\* ren.dispose() and the traversal of the bloomed scene (lines 1317-1324)
SceneDisposeCalls(r) ==
  IF r \in {"renderer", "scene.geometries", "scene.materials"} THEN 1 ELSE 0

\* dispose (lines 1300-1328)
dispose ==
  /\ Counted("dispose")
  /\ disposed' = TRUE
  /\ flightLayer' = FALSE
  /\ rafPending' = FALSE
  /\ listeners' = listeners \ Events
  /\ removeCalls' = [e \in Events |-> removeCalls[e] + 1]
  /\ released' = [r \in Resources |->
                    released[r] + SceneDisposeCalls(r)
                    + (IF flightLayer THEN LayerDisposeCalls(r) ELSE 0)]
  /\ arcs' = [i \in 1..Len(arcs) |-> [arcs[i] EXCEPT !.rel = @ + 1]]
  /\ UNCHANGED inputState
  /\ UNCHANGED selectedId
  /\ UNCHANGED fixedLayer
  /\ UNCHANGED <<vis, paused, rdy, loading, onReady, onFlightClick, readyCalls,
                 delivered, renders, simT, gQuat, qTarget, trackTransition,
                 camZ, targetCamZ, ms, mouse, camPos, win, netVars, created,
                 ambientArcTimer, nTick, sinceSelect, gesture, zoomMemo>>

\* a load that builds nothing when the fetch fails
LoadedOrNothing(ok) ==
  IF ok THEN OutlineResources \cup LandResources ELSE {}

\* lines 632-637: what the load builds, _geo and _buildLandTexture from the
\* fetched data or _fallback(COUNTRIES) from the built-in outlines
Loaded(ok) == OutlineResources \cup (IF ok THEN LandResources ELSE {})

\* the end of _loadCountries (lines 624-644): the fetch succeeded (ok) or
\* failed and the fallback data is used
LoadCountries(ok) ==
  /\ loading
  /\ loading' = FALSE
  /\ last' = [NoCall EXCEPT !.op = "loaded",
                            !.res = IF ok THEN "fetched" ELSE "fallback"]
  /\ created' = created \cup Loaded(ok)
  /\ rdy' = TRUE
  /\ readyCalls' = IF onReady THEN readyCalls + 1 ELSE readyCalls
  /\ ambientArcTimer' = 0
  /\ UNCHANGED engineVars
  /\ UNCHANGED selectedId
  /\ UNCHANGED fixedLayer
  /\ UNCHANGED <<disposed, flightLayer, rafPending, vis, paused, onReady,
                 onFlightClick, delivered, renders, simT, gQuat, qTarget,
                 trackTransition, camZ, targetCamZ, ms, mouse, camPos, win, netVars,
                 listeners, removeCalls, released, arcs, nTick, sinceSelect,
                 gesture, zoomMemo>>

(* ------------------------------- arcs ---------------------------------- *)
\* _mkArc (lines 902-999) for a delay in ms; line opacity starts at 1; the
\* line and the trail particles are visible unless the arc waits (lines 928,
\* 946), the sparks are not (line 986); born names the arc by the frame time
\* and the place in the batch of its creation
mkArc(delay) ==
  [state |-> IF delay > 0 THEN "waiting" ELSE "growing", delay |-> delay,
   draw |-> 0, holdT |-> 0, uOp |-> 1000, rel |-> 0, born |-> <<0, 0>>,
   lineVis |-> delay <= 0, sparkVis |-> FALSE]

\* an arc that starts to fade as soon as it is drawn
updateArcHasty(a, dt) ==
  IF a.state = "waiting"
  THEN [a EXCEPT !.delay = @ - dt,
                 !.state = IF a.delay - dt <= 0 THEN "growing" ELSE "waiting",
                 !.lineVis = IF a.delay - dt <= 0 THEN TRUE ELSE @]
  ELSE IF a.state = "growing"
  THEN LET d == Min(a.draw + TruncDiv(dt * 7, 10), 1000)
       IN [a EXCEPT !.draw = d,
                    !.state = IF d >= 1000 THEN "fading" ELSE "growing"]
  ELSE LET o == a.uOp - TruncDiv(dt * 25, 10)
       IN [a EXCEPT !.uOp = o,
                    !.state = IF o <= 0 THEN "removed" ELSE "fading",
                    !.rel = IF o <= 0 THEN @ + 1 ELSE @]

\* one arc's step of _updateArcs (lines 1001-1059); times in ms, draw and
\* opacity in thousandths; a faded-out arc is released (rel) and dropped
updateArc(a, dt) ==
  IF a.state = "waiting"
  THEN [a EXCEPT !.delay = @ - dt,
                 !.state = IF a.delay - dt <= 0 THEN "growing" ELSE "waiting",
                 !.lineVis = IF a.delay - dt <= 0 THEN TRUE ELSE @]
  ELSE IF a.state = "growing"
  THEN LET d == Min(a.draw + TruncDiv(dt * 7, 10), 1000)
       IN [a EXCEPT !.draw = d,
                    !.state = IF d >= 1000 THEN "hold" ELSE "growing",
                    !.holdT = IF d >= 1000 THEN 0 ELSE @,
                    !.sparkVis = IF d >= 1000 THEN TRUE ELSE @]
  ELSE IF a.state = "hold"
  THEN [a EXCEPT !.holdT = @ + dt,
                 !.state = IF a.holdT + dt > 700 THEN "fading" ELSE "hold"]
  ELSE LET o == a.uOp - TruncDiv(dt * 25, 10)
       IN [a EXCEPT !.uOp = o,
                    !.state = IF o <= 0 THEN "removed" ELSE "fading",
                    !.rel = IF o <= 0 THEN @ + 1 ELSE @]

\* a removal test no arc passes
GoneNever(a) == FALSE

\* line 1050: the line opacity of a fading arc has reached zero
Gone(a) == a.state = "removed"
Kept(a) == ~Gone(a)

updateArcs(xs, dt) ==
  SelectSeq([i \in 1..Len(xs) |-> updateArc(xs[i], dt)], Kept)

\* the arcs a frame removes (lines 1050-1056), as they are when they go
removedArcs(xs, dt) ==
  SelectSeq([i \in 1..Len(xs) |-> updateArc(xs[i], dt)], Gone)

\* _spawnAmbientArc (lines 890-900): the random batches, as lists of delays
ArcBatches == {<<0, 250>>, <<100, 0, 499>>}

(* ---------------------------- frame callback --------------------------- *)
MaxTicks == 14       \* invocations of the frame callback in one behaviour

\* getLiveFlight (FlightLayer.ts lines 342-345) on the entities h: the first
\* entry of the live list with the id, as <<lat, lng>>, or <<>>
getLiveFlight(h, id) ==
  LET hits == {i \in 1..Len(live) : h[live[i]].id = id}
  IN IF hits = {} THEN <<>>
     ELSE LET i == CHOOSE j \in hits : \A k \in hits : j <= k
          IN <<h[live[i]].lat, h[live[i]].lng>>

\* 1 - Math.exp(-speed * dt) in units of 1/Q, for speed * dt in thousandths
SlerpFactor(x) ==
  LET xq == x * 10
      x2 == TruncDiv(xq * xq, Q)
      x3 == TruncDiv(x2 * xq, Q)
      x4 == TruncDiv(x3 * xq, Q)
  IN xq - TruncDiv(x2, 2) + TruncDiv(x3, 6) - TruncDiv(x4, 24)

\* a slerp rate without the fast window
slerpSpeedSlow(tt) == 3

\* line 1140: this._trackTransition < 0.6 ? 8 : 3, for a timer in ms
slerpSpeed(tt) == IF tt < 600 THEN 8 ELSE 3

\* the tracking target of a position: _qTilt * _qCenter (lines 1128-1137)
TrackTarget(pos) == QMul(qTilt, QCenter(latLngToVector3(pos[1], pos[2])))

\* a frame delta without the cap
uncappedDelta(raw) == raw

\* line 1090: Math.min(this.clk.getDelta(), 0.05), in ms
cappedDelta(raw) == Min(raw, 50)

\* an inertia that never fades
DecayedNever(v) == v

\* lines 1165-1168: the velocity times 0.95, and zero once below 0.0001 rad
Decayed(v) ==
  IF Abs(TruncDiv(v * 95, 100)) < 10 THEN 0 ELSE TruncDiv(v * 95, 100)

\* an easing ten times as fast
easeZoomFast(cz, tz, dt) == cz + TruncDiv((tz - cz) * 30 * dt, 1000)

\* line 1180: this._camZ += (this._targetCamZ - this._camZ) * 3 * dt
easeZoom(cz, tz, dt) == cz + TruncDiv((tz - cz) * 3 * dt, 1000)

\* the visible part of _frame (lines 1090-1236) for a clock delta raw, in ms
FrameBody(raw, sp) ==
  LET dt == cappedDelta(raw)
      sel == selectedFlight
  IN
  /\ simT' = simT + dt
  /\ IF flightLayer
     THEN updateEffect(dt)
     ELSE UNCHANGED <<heap, meshCount, instances, stems, stemDraw, selVisible,
                      selMatrix, selMap>>
  /\ LET pos == IF sel # NoId /\ flightLayer
                THEN getLiveFlight(heap', sel) ELSE <<>>
         tracking == sel # NoId /\ pos # <<>> /\ ~dragging
         holding == sel # NoId /\ pos = <<>>
         free == sel = NoId /\ ~dragging
         tt == (IF sel # prevTrackedId THEN 0 ELSE trackTransition) + dt
         speed == slerpSpeed(tt)
         spin == IF paused THEN 0 ELSE TruncDiv(dt * 6283, 10000)
         rot == IF free
                THEN <<ClampPitch(userRot[1] + RotOfVel(dragVel[2])),
                       userRot[2] + spin + RotOfVel(dragVel[1])>>
                ELSE userRot
         q == IF tracking
              THEN Slerp(gQuat, TrackTarget(pos), SlerpFactor(speed * dt))
              ELSE IF holding THEN gQuat
              ELSE QFromEuler(1200 + rot[1], rot[2], -1800)
         tz == IF tracking \/ holding \/ free THEN userZoom ELSE targetCamZ
         cz == easeZoom(camZ, tz, dt)
         m == IF tracking THEN <<0, 0>>
              ELSE IF sel # NoId THEN ms
              ELSE IF ~dragging
              THEN <<ms[1] + TruncDiv((mouse[1] - ms[1]) * dt * 25, 10000),
                     ms[2] + TruncDiv((mouse[2] - ms[2]) * dt * 25, 10000)>>
              ELSE <<TruncDiv(ms[1] * 95, 100), TruncDiv(ms[2] * 95, 100)>>
         timer == IF ambientArcTimer < 0 THEN ambientArcTimer
                  ELSE ambientArcTimer + dt
         spawns == timer > 400 /\ rdy
         moved == updateArcs(arcs, dt)
     IN /\ prevTrackedId' = IF tracking THEN sel ELSE prevTrackedId
        /\ trackTransition' = IF tracking THEN tt ELSE trackTransition
        /\ qTarget' = IF tracking THEN TrackTarget(pos) ELSE qTarget
        /\ gQuat' = q
        /\ gRot' = IF tracking THEN EulerOfQ(q)
                   ELSE IF holding THEN gRot
                   ELSE <<1200 + rot[1], rot[2], -1800>>
        /\ userRot' = rot
        /\ dragVel' = IF tracking THEN <<0, 0>>
                      ELSE IF free
                      THEN <<Decayed(dragVel[1]), Decayed(dragVel[2])>>
                      ELSE dragVel
        /\ targetCamZ' = tz
        /\ camZ' = cz
        /\ ms' = m
        /\ camPos' = <<TruncDiv(m[1] * 6, 100),
                       (IF sel # NoId THEN 0 ELSE 2000) - TruncDiv(m[2] * 35, 1000),
                       cz>>
        /\ ambientArcTimer' = IF timer > 400 THEN 0 ELSE timer
        /\ arcs' = IF spawns
                   THEN moved \o [i \in 1..Len(sp) |->
                                    [mkArc(sp[i]) EXCEPT !.born = <<simT + dt, i>>]]
                   ELSE moved
        /\ last' = [NoCall EXCEPT !.op = "frame", !.L = removedArcs(arcs, dt),
                                  !.dt = dt,
                                  !.res = IF tracking THEN "tracking"
                                          ELSE IF holding THEN "holding"
                                          ELSE IF free THEN "free" ELSE "drag",
                                  !.speed = IF tracking THEN speed ELSE 0]
  /\ renders' = renders + 1
  /\ sinceSelect' = IF sinceSelect < 0 THEN sinceSelect ELSE sinceSelect + dt
  /\ UNCHANGED <<live, selectedId, nSnap, nFrame>>
  /\ UNCHANGED <<selectedFlight, userZoom, preTrackZoom, trackingZoom,
                 touchStartDist, touchStartZoom, touchStart, touchMoved,
                 dragging, dragPrev, nInput>>
  /\ UNCHANGED <<disposed, flightLayer, vis, paused, rdy, loading, onReady,
                 onFlightClick, readyCalls, delivered, mouse, win, netVars, listeners,
                 removeCalls, created, released, gesture, zoomMemo>>

\* a frame callback that never sees the flag
isDisposedNever == FALSE

\* line 1087: if (this._disposed) return
isDisposed == disposed

\* an invocation of the frame callback _frame (lines 1086-1236) with the
\* clock delta raw in ms and, for a frame that spawns arcs, the batch sp
FrameStep(raw, sp) ==
  /\ nTick' = nTick + 1
  /\ IF isDisposed
     THEN /\ last' = [NoCall EXCEPT !.op = "frame", !.res = "disposed"]
          /\ UNCHANGED <<layerVars, nSnap, nFrame, engineVars>>
          /\ UNCHANGED <<disposed, flightLayer, rafPending, vis, paused, rdy,
                         loading, onReady, onFlightClick, readyCalls, delivered,
                         renders, simT, gQuat, qTarget, trackTransition, camZ,
                         targetCamZ, ms, mouse, camPos, win, netVars, listeners,
                         removeCalls, created, released, arcs, ambientArcTimer,
                         sinceSelect, gesture, zoomMemo>>
     ELSE /\ rafPending' = TRUE
          /\ IF ~vis
             THEN /\ last' = [NoCall EXCEPT !.op = "frame", !.res = "hidden"]
                  /\ UNCHANGED <<layerVars, nSnap, nFrame, engineVars>>
                  /\ UNCHANGED <<disposed, flightLayer, vis, paused, rdy,
                                 loading, onReady, onFlightClick, readyCalls,
                                 delivered, renders, simT, gQuat, qTarget,
                                 trackTransition, camZ, targetCamZ, ms, mouse,
                                 camPos, win, netVars, listeners, removeCalls, created,
                                 released, arcs, ambientArcTimer, sinceSelect,
                                 gesture, zoomMemo>>
             ELSE FrameBody(raw, sp)

\* a frame callback within the number of frames of a behaviour
Frame(raw, sp) == nTick < MaxTicks /\ FrameStep(raw, sp)

\* the clock deltas of the frames, in ms: a 60 Hz frame, the capped maximum,
\* and a stall the cap cuts down
FrameDeltas == {16, 50, 120}

\* a frame with a clock delta from the set D
Frames(D) ==
  \E raw \in D :
    \E sp \in (IF ~disposed /\ vis /\ rdy /\ ambientArcTimer >= 0
                  /\ ambientArcTimer + cappedDelta(raw) > 400
               THEN ArcBatches ELSE {<<>>}) :
      Frame(raw, sp)

(* ------------------------- event arguments ----------------------------- *)
WheelEvents == {<<100, 0>>, <<-3, 1>>, <<40, 2>>, <<-40, 2>>}
ZoomSteps == {-2000, 2000}        \* Vignette.tsx lines 326, 330
OneFinger == {<<<<400, 300>>>>, <<<<405, 300>>>>, <<<<450, 330>>>>}
TwoFingers == {<<<<100, 100>>, <<200, 100>>>>, <<<<100, 100>>, <<250, 100>>>>,
               <<<<100, 100>>, <<400, 500>>>>, <<<<100, 100>>, <<100, 100>>>>}
Selectable == {"a", NoId}

\* a snapshot with one entity on the side of the globe that faces the camera
\* after construction
FrontSnapshot == <<Rec("a", 14 * Deg, -92 * Deg, 10000, 250, 90, 5, "A3")>>

(* -------------------------- initial states ----------------------------- *)
\* the window: 800 x 600, or 400 x 800 where the constructor picks the
\* zoomed-out default (line 144)
Window(z) == IF z = 22000 THEN <<400, 800>> ELSE <<800, 600>>

\* the engine after its constructor (lines 151-343), which leaves every zoom
\* value at _defaultZoom, starts the boundary-data load and runs one frame;
\* wired: the page has registered its callbacks (Globe.tsx lines 41-47)
\* route.ts line 4 and Globe.tsx lines 19, 27, 57: no cache, no request, an
\* empty list, the status "loading", the polling effect active
NetInit ==
  /\ cachedData = <<>>
  /\ clock = 0
  /\ reqs = <<>>
  /\ polls = <<>>
  /\ rawFlights = 0
  /\ active = TRUE
  /\ connectionStatus = "loading"
  /\ pushed = 0

EngineState(z, wired) ==
  /\ NetInit
  /\ selectedFlight = NoId
  /\ prevTrackedId = NoId
  /\ userZoom = z
  /\ preTrackZoom = z
  /\ trackingZoom = FALSE
  /\ touchStartDist = 0
  /\ touchStartZoom = 16000
  /\ touchStart = <<0, 0>>
  /\ touchMoved = FALSE
  /\ dragging = FALSE
  /\ dragPrev = <<0, 0>>
  /\ dragVel = <<0, 0>>
  /\ userRot = <<0, 0>>
  /\ gRot = <<1200, 0, -1800>>
  /\ nInput = 0
  /\ disposed = FALSE
  /\ flightLayer = TRUE
  /\ rafPending = TRUE
  /\ vis = TRUE
  /\ paused = FALSE
  /\ rdy = FALSE
  /\ loading = TRUE
  /\ onReady = wired
  /\ onFlightClick = wired
  /\ readyCalls = 0
  /\ delivered = <<>>
  /\ renders = 1
  /\ simT = 0
  /\ gQuat = QFromEuler(1200, 0, -1800)
  /\ qTarget = <<0, 0, 0, Q>>
  /\ trackTransition = 0
  /\ camZ = z
  /\ targetCamZ = z
  /\ ms = <<0, 0>>
  /\ mouse = <<0, 0>>
  /\ camPos = <<0, 2000, z>>
  /\ win = Window(z)
  /\ listeners = Events
  /\ removeCalls = [e \in Events |-> 0]
  /\ created = SceneResources \cup LayerResources
  /\ released = [r \in Resources |-> 0]
  /\ arcs = <<>>
  /\ ambientArcTimer = -1
  /\ nTick = 0
  /\ sinceSelect = -1
  /\ gesture = <<0, <<0, 0>>, FALSE, FALSE, 0, <<>>, <<>>>>
  /\ zoomMemo = -1

EngineInit(z) == EngineState(z, FALSE)
Mounted(z) == EngineState(z, TRUE)

LayerInit ==
  /\ heap = <<>>
  /\ live = <<>>
  /\ selectedId = NoId
  /\ meshCount = [c \in 0..(PLANE_CLASS_COUNT - 1) |-> 0]
  /\ instances = [c \in 0..(PLANE_CLASS_COUNT - 1) |-> <<>>]
  /\ stems = <<>>
  /\ stemDraw = 0
  /\ selVisible = FALSE
  /\ selMatrix = [lat |-> 0, lng |-> 0, alt |-> 0, hdg |-> 0, scale |-> 100]
  /\ selMap = Heavy
  /\ last = NoCall
  /\ nSnap = 0
  /\ nFrame = 0

Init == LayerInit /\ EngineInit(16000)

\* the flight layer with a selection: snapshots, frames, setSelectedId
Next ==
  \/ \E ids \in IdLists, v \in Variants : setFlights(Snapshot(ids, v))
  \/ \E id \in Ids \cup {NoId} : setSelectedId(id)
  \/ \E dt \in DtSet : update(dt)

Spec == Init /\ [][Next]_vars

\* the motion model: snapshots, frames, nearest-entity queries
MotionNext ==
  \/ \E ids \in IdLists, v \in Variants : setFlights(Snapshot(ids, v))
  \/ \E dt \in DtSet : update(dt)
  \/ \E q \in Queries : findNearest(q[1], q[2], PickDeg)

MotionSpec == Init /\ [][MotionNext]_vars

\* the engine's zoom inputs: wheel, touch gestures, and the public calls
ZoomInit == LayerInit /\ \E z \in {16000, 22000} : Mounted(z)

ZoomNext ==
  \/ \E w \in WheelEvents : Wheel(w[1], w[2])
  \/ \E ts \in OneFinger \cup TwoFingers : TouchStart(ts)
  \/ \E ts \in OneFinger \cup TwoFingers : TouchMove(ts)
  \/ \E ts \in OneFinger : TouchEnd(ts)
  \/ GlobeEngine_setFlights(FrontSnapshot)
  \/ \E d \in ZoomSteps : stepZoom(d)
  \/ zoomIn
  \/ \E f \in Selectable : setSelectedFlight(f)

ZoomSpec == ZoomInit /\ [][ZoomNext]_vars
\* the engine's life cycle: frames, the boundary-data load, the public calls
\* and dispose
DisposeTicks == 2    \* frame callbacks in one behaviour of DisposeSpec
DisposeInputs == 3   \* public calls in one behaviour of DisposeSpec
DisposeSnapshots == 1  \* snapshots in one behaviour of DisposeSpec

DisposeInit == LayerInit /\ Mounted(16000)

DisposeNext ==
  \/ nInput < DisposeInputs /\ dispose
  \/ nTick < DisposeTicks /\ Frames({50})
  \/ \E ok \in BOOLEAN : LoadCountries(ok)
  \/ nSnap < DisposeSnapshots /\ GlobeEngine_setFlights(FrontSnapshot)
  \/ nInput < DisposeInputs /\ \E f \in Selectable : setSelectedFlight(f)
  \/ nInput < DisposeInputs /\ zoomIn
  \/ nInput < DisposeInputs /\ \E d \in ZoomSteps : stepZoom(d)
  \/ nInput < DisposeInputs /\ togglePause
  \/ nInput < DisposeInputs /\ \E cb \in BOOLEAN : setOnReady(cb)
  \/ nInput < DisposeInputs /\ \E cb \in BOOLEAN : setOnFlightClick(cb)

DisposeSpec == DisposeInit /\ [][DisposeNext]_vars

\* the layer after setFlights(L) on the new layer, for a snapshot L without
\* repeated ids: every record becomes a new object (lines 174-178)
LayerAfter(L) ==
  /\ live = [i \in 1..Len(L) |-> i]
  /\ heap = [o \in 1..Len(L) |-> Fresh(L[o])]
  /\ selectedId = NoId
  /\ meshCount = [c \in 0..(PLANE_CLASS_COUNT - 1) |-> 0]
  /\ instances = [c \in 0..(PLANE_CLASS_COUNT - 1) |-> <<>>]
  /\ stems = <<>>
  /\ stemDraw = 0
  /\ selVisible = FALSE
  /\ selMatrix = [lat |-> 0, lng |-> 0, alt |-> 0, hdg |-> 0, scale |-> 100]
  /\ selMap = Heavy
  /\ last = NoCall
  /\ nSnap = 0
  /\ nFrame = 0

\* tracking: the mounted engine holds a first snapshot with entity a; then
\* one more snapshot, selections, and a long run of frames at the capped
\* frame time
TrackInputs == 2     \* selections in one behaviour of TrackSpec
TrackSnapshots == 1  \* further snapshots in one behaviour of TrackSpec

TrackInit == LayerAfter(Snapshot(<<"a">>, 1)) /\ Mounted(16000)

TrackNext ==
  \/ nSnap < TrackSnapshots
     /\ \E v \in Variants : GlobeEngine_setFlights(Snapshot(<<"a", "b">>, v))
  \/ nInput < TrackInputs /\ \E f \in {"a", "b"} : setSelectedFlight(f)
  \/ Frames({50})

TrackSpec == TrackInit /\ [][TrackNext]_vars

\* steering: selections, mouse moves and right-button drags between a few
\* frames, on the mounted engine holding a first snapshot with entity a
SteerTicks == 3      \* frame callbacks in one behaviour of SteerSpec
SteerInputs == 3     \* input events and calls in one behaviour of SteerSpec

MousePoints == {<<600, 200>>, <<400, 300>>}

SteerInit == LayerAfter(Snapshot(<<"a">>, 1)) /\ Mounted(16000)

SteerNext ==
  \/ nInput < SteerInputs /\ \E f \in {"a", "b", NoId} : setSelectedFlight(f)
  \/ nInput < SteerInputs /\ \E pt \in MousePoints : MouseMove(pt)
  \/ nInput < SteerInputs /\ \E b \in {0, 2} : MouseDown(b, <<400, 300>>)
  \/ nInput < SteerInputs /\ MouseUp
  \/ nTick < SteerTicks /\ Frames(FrameDeltas)

SteerSpec == SteerInit /\ [][SteerNext]_vars

(* ========================= properties of the zoom ====================== *)
(* C1: after any sequence of wheel events, pinch moves, stepZoom, zoomIn and
   setSelectedFlight calls the zoom target is within [6.5, 30]. *)
C1_ZoomInRange == 6500 <= userZoom /\ userZoom <= 30000

\* a pinch has driven the zoom target to a limit while zoomed in on a flight
C1_Witness ==
  /\ last.op = "touchMove"
  /\ touchStartDist > 0
  /\ trackingZoom
  /\ userZoom \in {6500, 30000}

(* ======================= properties of the flight layer ================ *)
InRange(lng) == -180 * Deg <= lng /\ lng <= 180 * Deg

\* how often the live list references object o
RefCount(o) == Cardinality({i \in 1..Len(live) : live[i] = o})

\* the objects the live list held for an id before a call
Holders(id) == {o \in Range(live) : heap[o].id = id}

(* C2: every live entity's longitude is within [-180, 180] degrees in every
   reachable state, also right after a snapshot inserts or blends it. *)
C2_LngNormalized == \A o \in DOMAIN heap : InRange(heap[o].lng)

(* C3: after setFlights(L) the live ids are the ids of L in order; an id that
   was live keeps its object, a new id gets a new object, nothing else stays. *)
C3_SnapshotIds ==
  [][last'.op = "setFlights" =>
       /\ Len(live') = Len(last'.L)
       /\ DOMAIN heap' = Range(live')
       /\ \A j \in 1..Len(live') :
            /\ heap'[live'[j]].id = last'.L[j].id
            /\ IF Holders(last'.L[j].id) # {}
               THEN live'[j] \in Holders(last'.L[j].id)
               ELSE /\ live'[j] \notin DOMAIN heap
                    /\ \A k \in 1..Len(live') : k # j => live'[k] # live'[j]
  ]_vars

\* a second snapshot of three entities has blended a kept one and inserted one
C3_Witness ==
  /\ last.op = "setFlights"
  /\ nSnap = 2
  /\ Len(live) = 3
  /\ \E j \in 1..Len(live) : LiveAt(j).cs = last.L[j].cs /\ LiveAt(j).lat # last.L[j].lat
  /\ \E j \in 1..Len(live) : LiveAt(j) = last.L[j]

(* C4: setFlights gives an id that was live the record's kinematic and
   display fields and moves its latitude and longitude by exactly 0.3 of the
   difference to the record; an id that was not live takes the record as is. *)
C4_ReplaceAndBlend ==
  [][last'.op = "setFlights" =>
       \A j \in 1..Len(last'.L) :
         LET f == last'.L[j]
         IN IF Holders(f.id) # {}
            THEN \E o \in Holders(f.id) :
                   heap'[live'[j]] =
                     [f EXCEPT !.lat = heap[o].lat + TruncDiv((f.lat - heap[o].lat) * 3, 10),
                               !.lng = heap[o].lng + TruncDiv((f.lng - heap[o].lng) * 3, 10)]
            ELSE heap'[live'[j]] = f
  ]_vars

\* the step of the claim: v is the record's ground speed in m/s, unscaled
ClaimedDLat(f, dt) ==
  TruncDiv(TruncDiv(f.vel * 10000 * dt, 1000) * Cos1000(f.hdg), 1113200)
ClaimedDLng(f, dt) ==
  IF CosLatE4(f.lat) > 10
  THEN TruncDiv(TruncDiv(TruncDiv(f.vel * 10000 * dt, 1000) * Sin1000(f.hdg),
                         CosLatE4(f.lat)) * 100, 11132)
  ELSE 0

(* C5: update(dt) advances every live entity by dLat = v cos(hdg) dt / 111320
   and dLng = v sin(hdg) dt / (111320 cos(lat)), v the record's ground speed
   in m/s, dLng zero near the poles, the longitude re-wrapped afterwards. *)
C5_DeadReckoning ==
  [][last'.op = "update" =>
       \A o \in DOMAIN heap :
         /\ heap'[o].lat = heap[o].lat + ClaimedDLat(heap[o], last'.dt)
         /\ \E k \in {-1, 0, 1} :
              heap'[o].lng = heap[o].lng + ClaimedDLng(heap[o], last'.dt) + k * 360 * Deg
         /\ InRange(heap'[o].lng)
  ]_vars

\* a longitude difference the short way round
WrapAbs(d) == Min(Abs(d), Min(Abs(d - 360 * Deg), Abs(d + 360 * Deg)))

\* groundSpeed * dt / 111320 degrees, and the same divided by cos(lat)
StepBound(f, dt) == (f.vel * dt * 1000) \div 111320
StepBoundLng(f, dt) ==
  IF CosLatE4(f.lat) > 10
  THEN (((f.vel * dt * 1000) \div CosLatE4(f.lat)) * 1250) \div 13915 + 1
  ELSE 0

(* C6 as claimed: after update(dt) latitude and longitude each differ from
   their old values by at most groundSpeed*dt/111320 degrees (the longitude
   difference taken the short way round), and the longitude is within
   [-180, 180]. *)
C6_StepWithinSpeedBound ==
  [][last'.op = "update" =>
       \A o \in DOMAIN heap :
         /\ Abs(heap'[o].lat - heap[o].lat) <= StepBound(heap[o], last'.dt)
         /\ WrapAbs(heap'[o].lng - heap[o].lng) <= StepBound(heap[o], last'.dt)
         /\ InRange(heap'[o].lng)
  ]_vars

(* C6 amended: one integration step changes the latitude by at most
   groundSpeed*dt/111320 degrees and the longitude, before the re-wrap, by at
   most that bound divided by cos(lat) (by nothing near the poles); an entity
   the live list references k times takes k steps in a frame; the re-wrap
   keeps a longitude that was within [-180, 180] within [-180, 180]. *)
C6_StepBoundByLatitude ==
  [][last'.op = "update" =>
       \A o \in DOMAIN heap :
         /\ Abs(heap'[o].lat - heap[o].lat)
              <= RefCount(o) * StepBound(heap[o], last'.dt)
         /\ \E k \in {-1, 0, 1} :
              Abs(heap'[o].lng - heap[o].lng - k * 360 * Deg)
                <= RefCount(o) * StepBoundLng(heap[o], last'.dt)
         /\ InRange(heap[o].lng) => InRange(heap'[o].lng)
  ]_vars

\* a frame has moved an entity that flies north-east at 70 degrees north
C6_Witness ==
  /\ last.op = "update"
  /\ last.dt = 50
  /\ \E o \in DOMAIN heap :
       heap[o].hdg = 60 /\ heap[o].lat > 70 * Deg /\ heap[o].lng > -179 * Deg

\* the squared distance, the longitude difference taken the short way round
WrapDistSq(f, lat, lng) == WAdd(WSq(f.lat - lat), WSq(WrapAbs(f.lng - lng)))

(* C7 as claimed: findNearest returns the id of a live entity of minimal
   wraparound-corrected squared distance if that distance is within maxDeg,
   and null exactly when no live entity is within maxDeg. *)
C7_NearestWithin ==
  last.op = "findNearest" =>
    LET T == WSq(last.maxDeg)
        D(i) == WrapDistSq(LiveAt(i), last.lat, last.lng)
        Within(i) == ~WLess(T, D(i))
    IN /\ (last.res = NoId) <=> ~(\E i \in 1..Len(live) : Within(i))
       /\ last.res # NoId =>
            \E i \in 1..Len(live) :
              /\ LiveAt(i).id = last.res
              /\ Within(i)
              /\ \A j \in 1..Len(live) : ~WLess(D(j), D(i))

(* C7 amended: the same with "within" read as strictly closer than maxDeg:
   an entity at exactly maxDeg is not returned. *)
C7_NearestStrictlyWithin ==
  last.op = "findNearest" =>
    LET T == WSq(last.maxDeg)
        D(i) == WrapDistSq(LiveAt(i), last.lat, last.lng)
        Within(i) == WLess(D(i), T)
    IN /\ (last.res = NoId) <=> ~(\E i \in 1..Len(live) : Within(i))
       /\ last.res # NoId =>
            \E i \in 1..Len(live) :
              /\ LiveAt(i).id = last.res
              /\ Within(i)
              /\ \A j \in 1..Len(live) : ~WLess(D(j), D(i))

\* two entities are strictly within the threshold and the one returned lies
\* across the antimeridian from the point asked about
C7_Witness ==
  /\ last.op = "findNearest"
  /\ last.res # NoId
  /\ \E i, j \in 1..Len(live) :
       /\ LiveAt(i).id = last.res
       /\ Abs(LiveAt(i).lng - last.lng) > 180 * Deg
       /\ LiveAt(j).id # last.res
       /\ WLess(WrapDistSq(LiveAt(j), last.lat, last.lng), WSq(last.maxDeg))

\* the slots drawn: <<class, slot index>>
DrawnSlots == {cm \in Classes \X (1..MAX_INSTANCES + 1) : cm[2] <= Len(instances[cm[1]])}

(* C8: after a frame with n live entities the first min(n, cap) entities are
   in the buffers, each in exactly one slot of its class, the class counts sum
   to min(n, cap), the stem count is min(n, cap), and no other entity is. *)
C8_CapAndBuckets ==
  last.op = "update" =>
    LET total == Total(Len(live))
    IN /\ meshCount[Light] + meshCount[Medium] + meshCount[Heavy] = total
       /\ stemDraw = 2 * total
       /\ \A c \in Classes : Len(instances[c]) = meshCount[c]
       /\ \A cm \in DrawnSlots : instances[cm[1]][cm[2]].fi \in 1..total
       /\ \A i \in 1..total :
            /\ Cardinality({cm \in DrawnSlots : instances[cm[1]][cm[2]].fi = i}) = 1
            /\ \A cm \in DrawnSlots :
                 instances[cm[1]][cm[2]].fi = i =>
                   cm[1] = classifyFlight(LiveAt(i).cat)

(* C9: after any frame the class counts, the stem draw range and the
   selected mesh's visibility describe the entities live at that frame. *)
C9_RebuiltEveryFrame ==
  last.op = "update" =>
    LET total == Total(Len(live))
    IN /\ \A c \in Classes :
            meshCount[c] =
              Cardinality({i \in 1..total : classifyFlight(LiveAt(i).cat) = c})
       /\ stemDraw = 2 * total
       /\ Len(stems) = total
       /\ selVisible <=> \E i \in 1..total : LiveAt(i).id = selectedId

(* C10: after every frame the selected mesh is visible iff the selected id
   belongs to a bucketed entity; then that entity's slot, and no other slot,
   is zero-scaled. *)
C10_SelectedDrawnOnce ==
  last.op = "update" =>
    LET total == Total(Len(live))
        zeroSlots == {cm \in DrawnSlots : instances[cm[1]][cm[2]].scale = 0}
    IN /\ selVisible <=> \E i \in 1..total : LiveAt(i).id = selectedId
       /\ selVisible =>
            /\ Cardinality(zeroSlots) = 1
            /\ \A cm \in zeroSlots :
                 /\ instances[cm[1]][cm[2]].fi \in 1..total
                 /\ LiveAt(instances[cm[1]][cm[2]].fi).id = selectedId
       /\ ~selVisible => zeroSlots = {}

(* ====================== properties of the life cycle =================== *)
\* every variable of the engine and its flight layer: all but the record of
\* the last call and the count of frame callbacks
engineState ==
  <<heap, live, selectedId, meshCount, instances, stems, stemDraw, selVisible,
    selMatrix, selMap, selectedFlight, prevTrackedId, userZoom, preTrackZoom,
    trackingZoom, touchStartDist, touchStartZoom, touchStart, touchMoved,
    dragging, dragPrev, dragVel, userRot, gRot, disposed, flightLayer,
    rafPending, vis, paused, rdy, loading, onReady, onFlightClick, readyCalls,
    delivered, renders, simT, gQuat, qTarget, trackTransition, camZ,
    targetCamZ, ms, mouse, camPos, win, netVars, listeners, removeCalls, created,
    released, arcs, ambientArcTimer>>

(* C11: after dispose(), an invocation of the frame callback changes no
   engine state, renders nothing and leaves no animation frame scheduled. *)
C11_DisposedFrameInert ==
  [][(disposed /\ last'.op = "frame")
       => (UNCHANGED engineState /\ ~rafPending')]_vars

\* the frame callback ran on an engine that had rendered frames and was then
\* disposed
C11_Witness ==
  /\ disposed
  /\ last.op = "frame"
  /\ last.res = "disposed"
  /\ renders >= 2

\* the record names of the engine's public calls
PublicOps == {"engine.setFlights", "setSelectedFlight", "zoomIn", "stepZoom",
              "togglePause", "setOnReady", "setOnFlightClick"}

(* C12: after dispose(), every public call on the engine (setFlights,
   setSelectedFlight, zoomIn, stepZoom, togglePause, setOnReady,
   setOnFlightClick) leaves all engine state unchanged and invokes no
   callback. *)
C12_PublicCallsInert ==
  [][(disposed /\ last'.op \in PublicOps) => UNCHANGED engineState]_vars

(* C13: over any number of dispose() calls every input listener is
   deregistered at most once and every GPU resource, live arcs included, is
   released at most once: a repeated dispose() releases nothing further. *)
C13_DisposeIdempotent ==
  /\ \A e \in Events : removeCalls[e] <= 1
  /\ \A r \in Resources : released[r] <= 1
  /\ \A i \in 1..Len(arcs) : arcs[i].rel <= 1

(* C14: once dispose() has returned, every GPU-side resource the engine has
   created has been released, live arcs included, and no listener of
   _setupEvents is still registered. *)
C14_AllReleased ==
  disposed =>
    /\ \A r \in created : released[r] >= 1
    /\ \A i \in 1..Len(arcs) : arcs[i].rel >= 1
    /\ listeners = {}

(* ========================= properties of tracking ====================== *)
\* the last step was a frame that ran the tracking branch
TrackingFrame == last.op = "frame" /\ last.res = "tracking"

(* C15: if entity B is selected while entity A is being tracked, every
   later tracking frame steers toward B's target, the fast-transition timer
   has restarted for B, and the fast rate applies exactly during the first
   0.6 s counted from the second selection. *)
C15_FastFromSelection ==
  [][(TrackingFrame' /\ sinceSelect >= 0)
       => /\ prevTrackedId' = selectedFlight
          /\ qTarget' = QMul(qTilt, QCenter(latLngToVector3(
                          getLiveFlight(heap', selectedFlight)[1],
                          getLiveFlight(heap', selectedFlight)[2])))
          /\ trackTransition' <= sinceSelect'
          /\ (last'.speed = 8 <=> sinceSelect' < 600)]_vars

(* C15, amended: every tracking frame steers toward the selected entity's
   target; the fast-transition timer restarts from zero at the first tracking
   frame of a newly selected entity (the first frame in which it is selected,
   has a live position and no drag is in progress), which is never before the
   selection, and advances by the frame time in tracking frames only; the
   fast rate applies exactly while that timer is below 0.6 s. *)
C15_FastFromFirstTrackingFrame ==
  [][TrackingFrame'
       => /\ prevTrackedId' = selectedFlight
          /\ qTarget' = QMul(qTilt, QCenter(latLngToVector3(
                          getLiveFlight(heap', selectedFlight)[1],
                          getLiveFlight(heap', selectedFlight)[2])))
          /\ trackTransition' =
               (IF prevTrackedId # selectedFlight THEN 0 ELSE trackTransition)
               + last'.dt
          /\ (sinceSelect >= 0 => trackTransition' <= sinceSelect')
          /\ (last'.speed = 8 <=> trackTransition' < 600)]_vars

\* b was selected while a was tracked, has been tracked in every frame since,
\* and its fast window is over
C15_Witness ==
  /\ TrackingFrame
  /\ selectedFlight = "b"
  /\ prevTrackedId = "b"
  /\ sinceSelect >= 600
  /\ trackTransition = sinceSelect
  /\ last.speed = 3

\* the orientation a free-mode frame applies for rotation offsets rot
\* (lines 1173-1177)
FreeOrientation(rot) == QFromEuler(1200 + rot[1], rot[2], -1800)

(* C16: on deselect after tracking, the rotation offsets are set so that the
   orientation the next free-mode frame applies, before its own auto-rotation
   increment, equals the orientation the globe had at the deselect (to within
   0.03 rad, above the resolution of the fixed-point angles). *)
C16_NoJumpOnDeselect ==
  [][(last'.op = "setSelectedFlight" /\ selectedFlight # NoId
        /\ selectedFlight' = NoId /\ prevTrackedId = selectedFlight)
       => AngleBetween(FreeOrientation(userRot'), gQuat) <= 300]_vars

(* C17: while an entity is selected, at the end of every frame that ran the
   drag inertia velocity and the pointer-parallax offsets are zero. *)
C17_ZeroWhileSelected ==
  (last.op = "frame" /\ last.res \in {"tracking", "holding", "drag"}
     /\ selectedFlight # NoId)
    => (dragVel = <<0, 0>> /\ ms = <<0, 0>>)

(* C18: while an entity with a live position stays selected and no drag is
   in progress, the angular distance between the globe orientation and the
   tracking target is smaller after every tracking frame than after the
   frame before, until it stays within a small epsilon (0.01 rad). *)
C18_ShrinksEveryFrame ==
  [][(TrackingFrame' /\ prevTrackedId = selectedFlight)
       => \/ AngleBetween(gQuat', qTarget') < AngleBetween(gQuat, qTarget)
          \/ AngleBetween(gQuat', qTarget') <= 100]_vars

(* C18, amended: every tracking frame moves the globe toward that frame's
   target: the angular distance to the target after the frame is the distance
   before the frame times exp(-speed * dt) (to within 0.002 rad), so it
   shrinks geometrically from frame to frame as long as the target stays
   where it is. *)
C18_FrameContracts ==
  [][TrackingFrame'
       => AngleBetween(gQuat', qTarget')
            <= TruncDiv(AngleBetween(gQuat, qTarget')
                          * (Q - SlerpFactor(last'.speed * last'.dt)), Q) + 20]_vars

\* a has been tracked for its whole fast window and the globe is within
\* 0.02 rad of its target, from 1.55 rad at the selection
C18_Witness ==
  /\ TrackingFrame
  /\ selectedFlight = "a"
  /\ trackTransition >= 600
  /\ AngleBetween(gQuat, qTarget) <= 200

(* ------------------------- properties of touch ------------------------- *)
\* a single finger is down and no second finger has joined since it landed
OneFingerDown == gesture[1] = 1 /\ ~gesture[4]

(* C19: for a single-finger touch, if the finger was ever more than 8 px from
   the touch-start point at a move, the release fires no pick; otherwise the
   release fires exactly one pick, resolved at the release coordinates, and
   no move of the gesture changes a rotation offset. *)
C19_TapOrDrag ==
  [][/\ (OneFingerDown /\ last'.op \in {"tap", "touchEnd"})
          => IF gesture[3]
             THEN last'.op = "touchEnd" /\ delivered' = delivered
             ELSE /\ last'.op = "tap"
                  /\ last'.res = ClickResult(last'.at)
                  /\ delivered' \in {delivered, Append(delivered, last'.res)}
     /\ (OneFingerDown /\ last'.op = "touchMove" /\ ~gesture'[3])
          => userRot' = userRot]_vars

\* a finger landed at (400, 300), moved 5 px and was released at (405, 300):
\* the release picked the entity under it
C19_Witness ==
  /\ last.op = "tap"
  /\ last.at = <<405, 300>>
  /\ last.res = "a"
  /\ gesture = <<0, <<400, 300>>, FALSE, FALSE, 0, <<>>, <<>>>>
  /\ delivered # <<>>

(* ------------------------------ picking -------------------------------- *)
\* clicks and taps on a mounted engine: on the entity at the window's centre,
\* on empty globe, and in the window's corner, off the globe
PickInputs == 3     \* input events in one behaviour of PickSpec
PickSnapshots == 1  \* snapshots in one behaviour of PickSpec
PickPoints == {<<400, 300>>, <<300, 300>>, <<5, 5>>}

PickInit == LayerInit /\ Mounted(16000)

PickNext ==
  \/ nInput < PickInputs /\ \E b \in {0, 2} : \E pt \in PickPoints : Click(b, pt)
  \/ nInput < PickInputs /\ \E pt \in PickPoints : TouchStart(<<pt>>)
  \/ nInput < PickInputs /\ \E pt \in PickPoints : TouchEnd(<<pt>>)
  \/ nInput < PickInputs /\ \E cb \in BOOLEAN : setOnFlightClick(cb)
  \/ nSnap < PickSnapshots /\ GlobeEngine_setFlights(FrontSnapshot)

PickSpec == PickInit /\ [][PickNext]_vars

\* the step is a left click or a tap that reached picking with the layer and
\* the callback in place
PickedAt == /\ last'.op \in {"click", "tap"}
            /\ nInput' # nInput
            /\ last'.res # "ignored"
            /\ flightLayer /\ onFlightClick

(* C20: a click or tap whose picking ray misses the globe hit-sphere is
   delivered to the pick callback as null, exactly like a hit with no entity
   within the 5 degree threshold. *)
C20_MissDeliversNull ==
  [][(PickedAt /\ HitPoint(last'.at) = <<>>)
       => delivered' = Append(delivered, NoId)]_vars

(* C21: after every move of a single-finger drag (a gesture that was ever
   more than 8 px from its landing point), the horizontal rotation offset
   has changed through the gesture's moves by the finger's horizontal
   distance from the landing point times the touch sensitivity 0.002 rad/px,
   however the movement was split into moves. *)
C21_DragIsDistance ==
  (last.op = "touchMove" /\ last.res = "finger" /\ OneFingerDown /\ gesture[3])
    => gesture[5] = (last.at[1] - gesture[2][1]) * 20

\* a finger landed at (400, 300), moved 5 px without starting a drag and
\* then to (450, 330): the offset changed by 50 * 0.002 = 0.1 rad
C21_Witness ==
  /\ last.op = "touchMove" /\ last.res = "finger"
  /\ OneFingerDown /\ gesture[3]
  /\ gesture[2] = <<400, 300>>
  /\ last.at = <<450, 330>>
  /\ dragPrev = <<450, 330>>
  /\ gesture[5] = 1000

(* ------------------------------ inertia -------------------------------- *)
\* a right-button drag of a pixel or two at the start, released, and the
\* frames that follow it
InertiaTicks == 80   \* frame callbacks in one behaviour of InertiaSpec
InertiaLead == 2     \* frames during which the input events arrive
InertiaInputs == 4   \* input events in one behaviour of InertiaSpec
InertiaPoints == {<<401, 300>>, <<400, 299>>}

InertiaInit == LayerInit /\ Mounted(16000)

InertiaInput ==
  \/ MouseDown(2, <<400, 300>>)
  \/ \E pt \in InertiaPoints : MouseMove(pt)
  \/ MouseUp
  \/ MouseLeave

InertiaFrame == nTick < InertiaTicks /\ FrameStep(16, <<>>)

InertiaNext ==
  \/ nTick < InertiaLead /\ nInput < InertiaInputs /\ InertiaInput
  \/ InertiaFrame

\* the frame loop keeps running: requestAnimationFrame re-arms in every frame
\* (line 1088), so the count of frames goes up as long as it may
NextFrameRuns == nTick < InertiaTicks /\ nTick' = nTick + 1

InertiaSpec == InertiaInit /\ [][InertiaNext]_vars /\ WF_nTick(NextFrameRuns)

\* the step is a frame that ran the free branch
FreeFrame == nTick' # nTick /\ last'.op = "frame" /\ last'.res = "free"

\* the step is a move of a drag in progress
DragMove == dragging /\ last'.op \in {"mouseMove", "touchMove"} /\ nInput' # nInput

(* C22: with no entity selected, every free-mode frame adds the residual
   velocity to the rotation offsets and multiplies it by 0.95, dropping it
   to zero once it is below 0.0001 rad; a velocity of zero stays zero until
   the next move of a drag; and after a release the velocity reaches exactly
   zero after finitely many frames. *)
C22_InertiaDecays ==
  /\ [][/\ FreeFrame
            => /\ userRot'[1] = ClampPitch(userRot[1] + TruncDiv(dragVel[2], 10))
               /\ userRot'[2] = userRot[2] + TruncDiv(last'.dt * 6283, 10000)
                                 + TruncDiv(dragVel[1], 10)
               /\ \A i \in {1, 2} :
                    /\ dragVel'[i] \in {0, TruncDiv(dragVel[i] * 95, 100)}
                    /\ (dragVel'[i] = 0) <=> (Abs(dragVel[i]) * 95 < 1000)
        /\ (dragVel = <<0, 0>> /\ ~DragMove) => dragVel' = <<0, 0>>]_vars
  /\ (~dragging) ~> (dragVel = <<0, 0>>)

\* a released drag whose inertia has run out after 70 frames or more: the
\* offsets moved on after the release and the velocity is exactly zero
C22_Witness ==
  /\ last.op = "frame" /\ last.res = "free"
  /\ ~dragging
  /\ nInput >= 3
  /\ nTick >= 70
  /\ dragVel = <<0, 0>>
  /\ userRot[1] < 0

(* ------------------------------- pitch --------------------------------- *)
\* drags by mouse and by touch, frames, and the selection of an entity that
\* is not on the side of the globe facing the camera
PitchTicks == 6    \* frame callbacks in one behaviour of PitchSpec
PitchInputs == 3   \* input events and calls in one behaviour of PitchSpec
PitchPoints == {<<400, 300>>, <<400, 700>>}

PitchInit == LayerAfter(Snapshot(<<"c">>, 1)) /\ Mounted(16000)

PitchNext ==
  \/ nInput < PitchInputs /\ \E f \in {"c", NoId} : setSelectedFlight(f)
  \/ nInput < PitchInputs /\ MouseDown(2, <<400, 300>>)
  \/ nInput < PitchInputs /\ \E pt \in PitchPoints : MouseMove(pt)
  \/ nInput < PitchInputs /\ MouseUp
  \/ nInput < PitchInputs /\ \E pt \in PitchPoints : TouchStart(<<pt>>)
  \/ nInput < PitchInputs /\ \E pt \in PitchPoints : TouchMove(<<pt>>)
  \/ nInput < PitchInputs /\ \E pt \in PitchPoints : TouchEnd(<<pt>>)
  \/ nTick < PitchTicks /\ Frames({50})

PitchSpec == PitchInit /\ [][PitchNext]_vars

(* C23: the vertical rotation offset _userRotX is within the pitch range
   [-1.5, 1.5] rad in every reachable state. *)
C23_PitchInRange == userRot[1] >= -15000 /\ userRot[1] <= 15000

\* two fingers are down, and they landed apart
Pinching == gesture[1] = 2 /\ gesture[6] # <<>>
            /\ Dist(gesture[6][2][1], gesture[6][2][2]) > 0

(* C24: after every move of a two-finger pinch the zoom target is
   clamp(startZoom + (startDistance - currentDistance) * 0.06, 6.5, 30),
   for the zoom and the finger distance at the start of the pinch, whatever
   happened in between. *)
C24_PinchFromStart ==
  (last.op = "touchMove" /\ last.res = "pinch" /\ Len(last.L) = 2 /\ Pinching)
    => userZoom =
         Max(6500, Min(30000,
             gesture[6][1]
             + (Dist(gesture[6][2][1], gesture[6][2][2])
                - Dist(last.L[1], last.L[2])) * 60))

\* a pinch that started 100 px apart at zoom 16, after a wheel turn and a
\* move with the fingers 150 px apart: zoom 16 - 50 * 0.06 = 13
C24_Witness ==
  /\ last.op = "touchMove" /\ last.res = "pinch" /\ Pinching
  /\ gesture[6] = <<16000, <<<<100, 100>>, <<200, 100>>>>>>
  /\ last.L = <<<<100, 100>>, <<250, 100>>>>
  /\ nInput >= 3
  /\ userZoom = 13000

(* ------------------------- properties of zoom-in ----------------------- *)
\* the step is zoomIn(), called directly or by the pick callback for an id
ZoomInStep ==
  /\ nInput' # nInput
  /\ \/ last'.op = "zoomIn"
     \/ /\ last'.op \in {"click", "tap"}
        /\ last'.res \notin {NoId, "miss", "unwired", "ignored"}

\* the step is setSelectedFlight(null)
DeselectStep ==
  nInput' # nInput /\ last'.op = "setSelectedFlight" /\ selectedFlight' = NoId

(* C25: zoomIn() leaves the zoom target at most 9 and no larger than it was,
   and setSelectedFlight(null) sets the zoom target to the value it had
   before the first zoomIn() since the previous setSelectedFlight(null),
   whatever was called in between. *)
C25_ZoomRestored ==
  [][/\ ZoomInStep => (userZoom' <= 9000 /\ userZoom' <= userZoom)
     /\ (DeselectStep /\ zoomMemo # -1) => userZoom' = zoomMemo]_vars

\* a tap picked entity a, which zoomed in from 16; something else happened;
\* the deselect then put the zoom target back to 16
C25_Witness ==
  /\ last.op = "setSelectedFlight" /\ selectedFlight = NoId
  /\ delivered # <<>>
  /\ ~trackingZoom
  /\ zoomMemo = -1
  /\ userZoom = 16000
  /\ nInput = 4

(* ----------------------------- visibility ------------------------------ *)
\* the page is hidden and shown again while frames run, after the boundary
\* data has loaded, with an entity in the layer
VisTicks == 11    \* frame callbacks in one behaviour of VisSpec
VisInputs == 3    \* visibility changes and calls in one behaviour of VisSpec
VisDeltas == {50, 60}   \* clock deltas in ms: at the cap, and beyond it

VisInit == LayerAfter(Snapshot(<<"a">>, 1)) /\ Mounted(16000)

VisNext ==
  \/ nInput < VisInputs /\ \E hidden \in BOOLEAN : VisChange(hidden)
  \/ nInput < VisInputs /\ setSelectedFlight("a")
  \/ LoadCountries(TRUE)
  \/ nTick < VisTicks /\ Frames(VisDeltas)

VisSpec == VisInit /\ [][VisNext]_vars

\* what a frame advances: engine time, the entities and their instances, the
\* globe and camera state, the arcs and their timer
frameState == <<simT, heap, instances, stems, selMatrix, gQuat, gRot, qTarget,
                userRot, dragVel, trackTransition, prevTrackedId, camZ,
                targetCamZ, ms, camPos, arcs, ambientArcTimer, renders>>

(* C26: a frame callback that runs while the page is hidden changes no
   engine time, entity position, camera state or arc, and a frame callback
   that runs while the page is visible advances engine time by at most
   0.05 s, whatever the clock delta. *)
C26_HiddenSuspends ==
  [][(nTick' # nTick)
       => IF ~vis
          THEN UNCHANGED frameState
          ELSE /\ simT' - simT <= 50
               /\ simT' - simT = last'.dt
               /\ ambientArcTimer' - ambientArcTimer <= 50]_vars

\* the page was hidden and shown again, and the frames since have advanced
\* the engine, with arcs in flight, by 0.05 s each
C26_Witness ==
  /\ last.op = "frame" /\ last.res # "hidden"
  /\ vis
  /\ nInput >= 2
  /\ arcs # <<>>
  /\ simT < nTick * 50

(* ------------------------------ readiness ------------------------------ *)
\* an engine under construction: the page registers its ready callback once,
\* before or after the boundary data has loaded or failed to load
ReadyTicks == 10    \* frame callbacks in one behaviour of ReadySpec
ReadyInputs == 3    \* calls in one behaviour of ReadySpec

ReadyInit == LayerInit /\ EngineInit(16000)

ReadyNext ==
  \/ nInput < ReadyInputs /\ ~onReady /\ setOnReady(TRUE)
  \/ \E ok \in BOOLEAN : LoadCountries(ok)
  \/ nInput < ReadyInputs /\ setOnFlightClick(TRUE)
  \/ nInput < ReadyInputs /\ togglePause
  \/ nTick < ReadyTicks /\ Frames({50})

ReadySpec == ReadyInit /\ [][ReadyNext]_vars

(* C27: the ready callback, registered once, is never invoked while the
   boundary data is still loading, is invoked at most once, and has been
   invoked exactly once as soon as it is registered and the load has
   finished, whichever of the two came first. *)
C27_ReadyOnce ==
  /\ readyCalls <= 1
  /\ loading => readyCalls = 0
  /\ (onReady /\ ~loading) => readyCalls = 1

\* the callback was registered after the load had finished, and has run once
C27_Witness ==
  /\ last.op = "setOnReady"
  /\ rdy /\ ~loading
  /\ onReady
  /\ readyCalls = 1

\* the step is the end of a load whose fetch or parse failed
FallbackLoad == loading /\ last'.op = "loaded" /\ last'.res = "fallback"

(* C28: when fetching or parsing the boundary data fails, the load still
   finishes: the outlines are built (from the built-in data), the engine is
   ready, a registered ready callback runs once, and the ambient-arc timer
   starts at zero, as on the success path. *)
C28_FallbackCompletes ==
  [][FallbackLoad
       => /\ ~loading' /\ rdy'
          /\ OutlineResources \subseteq created'
          /\ readyCalls' = readyCalls + (IF onReady THEN 1 ELSE 0)
          /\ ambientArcTimer' = 0]_vars

\* the fetch failed, and frames later the engine is ready, has called the
\* page back, and has spawned ambient arcs
C28_Witness ==
  /\ "landTexture" \notin created
  /\ OutlineResources \subseteq created
  /\ rdy
  /\ readyCalls = 1
  /\ arcs # <<>>

(* ===================== a snapshot applied repeatedly =================== *)
\* the layer after a first snapshot, then snapshots of distinct ids and
\* frames of integration in any order
BlendLists == {<<"a">>, <<"a", "b">>, <<"b", "a">>}

BlendInit == LayerAfter(Snapshot(<<"a", "b">>, 1)) /\ EngineInit(16000)

BlendNext ==
  \/ \E ids \in BlendLists, v \in Variants : setFlights(Snapshot(ids, v))
  \/ \E dt \in DtSet : update(dt)

BlendSpec == BlendInit /\ [][BlendNext]_vars

\* a value x on its way to the target t after a step to y: no overshoot, and
\* 0.7 of the remaining difference is left
SevenTenths(x, y, t) ==
  /\ (t - x >= 0) = (t - y >= 0)
  /\ Abs((t - y) - 7 * TruncDiv(t - x, 10)) <= 7

(* C29: when setFlights is called again with the list of the call before it
   and no frame in between, every entity's latitude and longitude move toward
   the record's value without overshoot and leave 0.7 of the difference, and
   the displayed position is no further from the record's than before. *)
C29_RepeatConverges ==
  [][(last.op = "setFlights" /\ last'.op = "setFlights" /\ last'.L = last.L) =>
       \A j \in 1..Len(last'.L) :
         LET f == last'.L[j]
         IN \A o \in Holders(f.id) :
              /\ SevenTenths(heap[o].lat, heap'[live'[j]].lat, f.lat)
              /\ SevenTenths(heap[o].lng, heap'[live'[j]].lng, f.lng)
              /\ WrapAbs(f.lng - heap'[live'[j]].lng) <= WrapAbs(f.lng - heap[o].lng)
  ]_vars

(* ====================== gestures of several fingers ==================== *)
\* touch events as the platform sends them: a start lists more fingers than
\* were down, a move lists the fingers that are down, an end lists fingers
\* that were down
GestureOne == {<<<<400, 300>>>>, <<<<100, 100>>>>, <<<<130, 100>>>>}
GestureTwo == {<<<<400, 300>>, <<100, 100>>>>, <<<<400, 300>>, <<130, 100>>>>}

GestureInit == LayerInit /\ Mounted(16000)

GestureNext ==
  \/ \E ts \in GestureOne \cup GestureTwo : Len(ts) > gesture[1] /\ TouchStart(ts)
  \/ \E ts \in GestureOne \cup GestureTwo : Len(ts) = gesture[1] /\ TouchMove(ts)
  \/ \E ts \in GestureOne \cup GestureTwo : Len(ts) <= gesture[1] /\ TouchEnd(ts)

GestureSpec == GestureInit /\ [][GestureNext]_vars

(* C30: while fingers of a gesture that a second finger joined are down, no
   touch end fires a pick, and a move of the one finger left rotates the
   globe by no more than 0.002 rad per pixel of that finger's movement from
   where it was last seen. *)
C30_TwoFingerGesture ==
  [][(gesture[4] /\ gesture[1] >= 1) =>
       /\ last'.op # "tap"
       /\ (gesture[1] = 1 /\ last'.op = "touchMove" /\ last'.res = "finger") =>
            \E q \in Range(gesture[7]) :
              /\ Abs(userRot'[2] - userRot[2]) <= 20 * Abs(last'.at[1] - q[1])
              /\ Abs(userRot'[1] - userRot[1]) <= 20 * Abs(last'.at[2] - q[2])
  ]_vars

(* ======================= rotation mode of a frame ====================== *)
(* C31: a frame that runs while an entity is selected either steers the
   globe toward the tracking target or leaves its orientation as it was; it
   never applies the free-mode rotation offsets, drag in progress or not. *)
C31_SelectedNeverFree ==
  [][(last'.op = "frame" /\ last'.res \notin {"disposed", "hidden"}
        /\ selectedFlight # NoId)
       => /\ last'.res \in {"tracking", "holding"}
          /\ last'.res = "holding" => gQuat' = gQuat
          /\ userRot' = userRot]_vars

(* ===================== a load that outlives the engine ================= *)
(* C32: when the boundary-data load completes on a disposed engine it
   creates no resource, does not call the ready callback and does not start
   the ambient-arc timer. *)
C32_LateLoadInert ==
  [][(disposed /\ last'.op = "loaded")
       => /\ created' = created
          /\ readyCalls' = readyCalls
          /\ ambientArcTimer' = ambientArcTimer]_vars

(* ========================== camera distance ============================ *)
CamTicks == 3        \* frames in one behaviour of the camera
CamInputs == 3       \* zoom inputs, selections and drags in one behaviour

CamInit == LayerAfter(FrontSnapshot) /\ \E z \in {16000, 22000} : Mounted(z)

CamNext ==
  \/ nInput < CamInputs /\ \E w \in WheelEvents : Wheel(w[1], w[2])
  \/ nInput < CamInputs /\ \E d \in ZoomSteps : stepZoom(d)
  \/ nInput < CamInputs /\ zoomIn
  \/ nInput < CamInputs /\ \E f \in Selectable : setSelectedFlight(f)
  \/ nInput < CamInputs /\ MouseDown(2, <<400, 300>>)
  \/ nTick < CamTicks /\ Frames(FrameDeltas)

CamSpec == CamInit /\ [][CamNext]_vars

\* a frame that ran its body
RanFrame == last.op = "frame" /\ last.res \notin {"disposed", "hidden"}

(* C33: the camera distance is within [6.5, 30] in every state, and every
   frame moves it toward the zoom target by 3 * dt of the difference, dt at
   most 0.05 s, never beyond the target. *)
C33_CamInRange ==
  /\ [](camZ >= 6500 /\ camZ <= 30000)
  /\ [][RanFrame' =>
          /\ last'.dt <= 50
          /\ Abs(1000 * (camZ' - camZ) - (targetCamZ' - camZ) * 3 * last'.dt) < 1000
          /\ IF targetCamZ' >= camZ
             THEN camZ <= camZ' /\ camZ' <= targetCamZ'
             ELSE targetCamZ' <= camZ' /\ camZ' <= camZ]_vars

C33_Witness ==
  /\ RanFrame /\ last.dt = 50
  /\ userZoom = 30000 /\ targetCamZ = 30000
  /\ camZ = 18100

(* ========================= one entry per entity ======================== *)
(* C34: in every state no two entries of the live list hold the same object
   and no two hold entities of the same id, whatever snapshots were applied,
   one that lists an id twice included. *)
C34_LiveIdsUnique ==
  \A i, j \in 1..Len(live) :
    i # j => (live[i] # live[j] /\ heap[live[i]].id # heap[live[j]].id)

(* ===================== blending across the meridian ==================== *)
(* C35: when setFlights blends an entity toward a record more than 180
   degrees of longitude away in numbers, that is, across the +/-180 meridian,
   the entity's longitude moves by at most 0.3 of the wraparound-corrected
   longitude difference. *)
C35_BlendShortWay ==
  [][last'.op = "setFlights" =>
       \A j \in 1..Len(last'.L) :
         LET f == last'.L[j]
         IN \A o \in Holders(f.id) :
              Abs(f.lng - heap[o].lng) > 180 * Deg =>
                WrapAbs(heap'[live'[j]].lng - heap[o].lng)
                  <= TruncDiv(WrapAbs(f.lng - heap[o].lng) * 3, 10) + 1
  ]_vars

(* ========================= life of an ambient arc ====================== *)
ArcTicks == 75       \* frame callbacks in one behaviour of the arcs
ArcLead == 2         \* frames before which the boundary data has loaded

ArcInit == LayerInit /\ Mounted(16000)

\* a 50 ms frame; one that spawns arcs draws their batch
ArcFrame ==
  /\ nTick < ArcTicks
  /\ \E sp \in (IF rdy /\ ambientArcTimer >= 0 /\ ambientArcTimer + 50 > 400
                THEN ArcBatches ELSE {<<>>}) :
       FrameStep(50, sp)

ArcNext ==
  \/ nTick < ArcLead /\ LoadCountries(TRUE)
  \/ ArcFrame

ArcSpec == ArcInit /\ [][ArcNext]_vars

\* the place of a state in the life of an arc
ArcRank(st) ==
  CASE st = "waiting" -> 1 [] st = "growing" -> 2 [] st = "hold" -> 3
    [] st = "fading" -> 4

\* the arcs of xs that were created as b
ArcsBorn(xs, b) == {i \in 1..Len(xs) : xs[i].born = b}

(* C36: an arc starts in waiting, or in growing when its delay is zero, with
   nothing drawn; every frame leaves it in its state or moves it to the next
   of waiting, growing, hold, fading, and only a fading arc is removed; its
   draw progress never decreases and stays within [0, 1]; while it waits its
   line and trail particles are invisible; its sparks are invisible before
   hold and become visible in the frame that enters hold. *)
C36_ArcLifecycle ==
  /\ [](\A i \in 1..Len(arcs) :
          /\ arcs[i].state \in {"waiting", "growing", "hold", "fading"}
          /\ arcs[i].draw >= 0 /\ arcs[i].draw <= 1000
          /\ arcs[i].state = "waiting" => ~arcs[i].lineVis
          /\ arcs[i].sparkVis <=> arcs[i].state \in {"hold", "fading"})
  /\ [][\A b \in {arcs[i].born : i \in 1..Len(arcs)}
               \cup {arcs'[i].born : i \in 1..Len(arcs')} :
          /\ Cardinality(ArcsBorn(arcs, b)) <= 1
          /\ Cardinality(ArcsBorn(arcs', b)) <= 1
          /\ \A i \in ArcsBorn(arcs, b) :
               /\ ArcsBorn(arcs', b) = {} => arcs[i].state = "fading"
               /\ \A j \in ArcsBorn(arcs', b) :
                    /\ ArcRank(arcs'[j].state) - ArcRank(arcs[i].state) \in {0, 1}
                    /\ arcs'[j].draw >= arcs[i].draw
                    /\ (arcs'[j].sparkVis /\ ~arcs[i].sparkVis)
                         => (arcs[i].state = "growing" /\ arcs'[j].state = "hold")
          /\ \A j \in ArcsBorn(arcs', b) :
               ArcsBorn(arcs, b) = {} =>
                 /\ arcs'[j].state = (IF arcs'[j].delay > 0 THEN "waiting"
                                      ELSE "growing")
                 /\ arcs'[j].draw = 0
     ]_vars

\* an arc that waited, was drawn in full, held for more than 0.7 s and is
\* fading, its sparks visible, beside an arc that still waits
C36_Witness ==
  /\ \E i \in 1..Len(arcs) :
       /\ arcs[i].state = "fading" /\ arcs[i].delay <= 0 /\ arcs[i].delay > -50
       /\ arcs[i].draw = 1000 /\ arcs[i].holdT > 700
       /\ arcs[i].uOp < 1000 /\ arcs[i].sparkVis /\ arcs[i].lineVis
  /\ \E i \in 1..Len(arcs) : arcs[i].state = "waiting"

(* ========================= every arc is removed ======================== *)
ArcBornBy == 500     \* frame time, in ms, by which the arcs followed to
                     \* their removal are created
ArcsAtOnce == 21     \* three arcs of each of seven batches

\* the frame loop keeps running: requestAnimationFrame re-arms in every frame
\* (line 1088)
ArcFrameRuns == nTick < ArcTicks /\ nTick' = nTick + 1

ArcFairSpec == ArcInit /\ [][ArcNext]_vars /\ WF_nTick(ArcFrameRuns)

EarlyArcs == {i \in 1..Len(arcs) : arcs[i].born[1] <= ArcBornBy}

(* C37: with frames of positive dt running, the arcs created by a given time
   are all removed eventually (and none is created again); a frame releases
   the resources of each arc it removes exactly once and of no arc it keeps;
   and the number of live arcs stays bounded. *)
C37_ArcsRemoved ==
  /\ [][(nTick' # nTick /\ last'.op = "frame") =>
          /\ \A k \in 1..Len(last'.L) :
               /\ last'.L[k].rel = 1
               /\ ArcsBorn(arcs, last'.L[k].born) # {}
               /\ ArcsBorn(arcs', last'.L[k].born) = {}
          /\ \A i \in 1..Len(arcs') : arcs'[i].rel = 0
          /\ Len(arcs') <= Len(arcs) - Len(last'.L) + 4]_vars
  /\ [](Len(arcs) <= ArcsAtOnce)
  /\ (EarlyArcs # {}) ~> (EarlyArcs = {} /\ simT > ArcBornBy)

\* a frame has removed the first arcs, released once, and younger arcs live
C37_Witness ==
  /\ last.op = "frame" /\ Len(last.L) > 0
  /\ \A k \in 1..Len(last.L) : last.L[k].rel = 1 /\ last.L[k].born[1] <= ArcBornBy
  /\ EarlyArcs = {} /\ arcs # <<>>

(* ========================= GET /api/flights ============================ *)
CACHE_TTL == 15000   \* route.ts line 6, ms
MaxRequests == 3     \* requests in one behaviour of the route
MaxClock == 40000    \* the server's clock stops here, ms
ClockSteps == {5000, 16000}

\* everything but the route and the polling loop
engineSide ==
  <<layerVars, last, nSnap, nFrame, engineVars, disposed, flightLayer,
    rafPending, vis, paused, rdy, loading, onReady, onFlightClick, readyCalls,
    delivered, renders, simT, gQuat, qTarget, trackTransition, camZ,
    targetCamZ, ms, mouse, camPos, win, listeners, removeCalls, created,
    released, arcs, ambientArcTimer, nTick, sinceSelect, gesture, zoomMemo>>
pageVars == <<polls, rawFlights, active, connectionStatus, pushed>>

\* the list an upstream returns to request r stands for itself as r; 0 is []
\* lines 26-32, 12-18, 37-43, 46-52: the four response bodies
FreshResponse(r, now) ==
  [flights |-> r, timestamp |-> now, cached |-> FALSE, stale |-> FALSE,
   error |-> FALSE]
CachedResponse(c) ==
  [flights |-> c.flights, timestamp |-> c.timestamp, cached |-> TRUE,
   stale |-> FALSE, error |-> FALSE]
StaleResponse(c) ==
  [flights |-> c.flights, timestamp |-> c.timestamp, cached |-> TRUE,
   stale |-> TRUE, error |-> TRUE]
EmptyResponse(now) ==
  [flights |-> 0, timestamp |-> now, cached |-> FALSE, stale |-> FALSE,
   error |-> TRUE]

\* GET up to its first await (lines 8-22): the answer from a cache younger
\* than CACHE_TTL, or the call of fetchAdsbLol
GET ==
  /\ Len(reqs) < MaxRequests
  /\ reqs' = Append(reqs,
       IF cachedData # <<>> /\ clock - cachedData.timestamp < CACHE_TTL
       THEN [pc |-> "done", now |-> clock, resp |-> CachedResponse(cachedData)]
       ELSE [pc |-> "adsb", now |-> clock, resp |-> <<>>])
  /\ UNCHANGED <<cachedData, clock>>
  /\ UNCHANGED pageVars
  /\ UNCHANGED engineSide

\* lines 24-33: the list of an upstream is cached under the request's own
\* time and returned
Refreshed(r) ==
  /\ cachedData' = [flights |-> r, timestamp |-> reqs[r].now]
  /\ reqs' = [reqs EXCEPT ![r].pc = "done",
                          ![r].resp = FreshResponse(r, reqs[r].now)]

\* the first upstream settles for request r (line 22, fetchAdsbLol lines
\* 55-116): with a list (ok), or with null, and then fetchOpenSky is called
fetchAdsbLol(r, ok) ==
  /\ reqs[r].pc = "adsb"
  /\ IF ok THEN Refreshed(r)
     ELSE /\ reqs' = [reqs EXCEPT ![r].pc = "opensky"]
          /\ UNCHANGED cachedData
  /\ UNCHANGED clock
  /\ UNCHANGED pageVars
  /\ UNCHANGED engineSide

\* the second upstream settles for request r (lines 22-52, fetchOpenSky
\* lines 129-184)
fetchOpenSky(r, ok) ==
  /\ reqs[r].pc = "opensky"
  /\ IF ok THEN Refreshed(r)
     ELSE /\ reqs' = [reqs EXCEPT ![r].pc = "done",
                        ![r].resp = IF cachedData # <<>>
                                    THEN StaleResponse(cachedData)
                                    ELSE EmptyResponse(reqs[r].now)]
          /\ UNCHANGED cachedData
  /\ UNCHANGED clock
  /\ UNCHANGED pageVars
  /\ UNCHANGED engineSide

\* time passes on the server
Pass(d) ==
  /\ clock + d <= MaxClock
  /\ clock' = clock + d
  /\ UNCHANGED <<cachedData, reqs>>
  /\ UNCHANGED pageVars
  /\ UNCHANGED engineSide

RouteNext ==
  \/ GET
  \/ \E r \in 1..Len(reqs), ok \in BOOLEAN : fetchAdsbLol(r, ok)
  \/ \E r \in 1..Len(reqs), ok \in BOOLEAN : fetchOpenSky(r, ok)
  \/ \E d \in ClockSteps : Pass(d)

RouteSpec == Init /\ [][RouteNext]_vars

\* the step calls the upstream src for request r
Contacts(r, src) ==
  /\ r <= Len(reqs') /\ reqs'[r].pc = src
  /\ (r > Len(reqs) \/ reqs[r].pc # src)

\* the step ends request r with both upstreams failed
BothFailed(r) ==
  /\ r <= Len(reqs) /\ reqs[r].pc = "opensky"
  /\ reqs'[r].pc = "done" /\ reqs'[r].resp.error

\* some request has answered with a list it fetched
EverFetched ==
  \E r \in 1..Len(reqs) :
    reqs[r].pc = "done" /\ ~reqs[r].resp.cached /\ ~reqs[r].resp.error

(* C38: a request whose two upstream calls both fail leaves the cache as it
   is and answers with the cached flights, stale and error set, when some
   request has ever fetched a list, and with an empty list and error set when
   none has; the second upstream is called only when the first has failed;
   and no upstream is called while the cache is younger than 15 s. *)
C38_FailureKeepsCache ==
  [][\A r \in 1..MaxRequests :
       /\ BothFailed(r) =>
            /\ cachedData' = cachedData
            /\ reqs'[r].resp =
                 (IF EverFetched THEN StaleResponse(cachedData)
                  ELSE EmptyResponse(reqs[r].now))
            /\ EverFetched <=> cachedData # <<>>
       /\ Contacts(r, "opensky") => (r <= Len(reqs) /\ reqs[r].pc = "adsb")
       /\ (Contacts(r, "adsb") \/ Contacts(r, "opensky")) =>
            (cachedData = <<>> \/ clock - cachedData.timestamp >= CACHE_TTL)
  ]_vars

(* C39: whenever the cache is written, its timestamp does not decrease and
   the list it held is not replaced by the list of a request that arrived
   before the request whose list it held. *)
C39_CacheMovesForward ==
  [][(cachedData # <<>> /\ cachedData' # cachedData) =>
       /\ cachedData'.timestamp >= cachedData.timestamp
       /\ cachedData'.flights >= cachedData.flights]_vars

(* ======================== the page's polling loop ====================== *)
MaxPolls == 3        \* fetchFlights calls in one behaviour of the page

routeVars == <<cachedData, clock, reqs>>

\* how a poll can end: a response with ok set, named by the status its flags
\* select (Globe.tsx lines 68-71), a response without ok, or a rejection
Outcomes == {"live", "cached", "stale", "error", "notok", "throw"}

\* fetchFlights up to its await (Globe.tsx lines 59-61), called at mount and
\* by the interval that the cleanup clears
fetchFlights ==
  /\ active
  /\ Len(polls) < MaxPolls
  /\ polls' = Append(polls, [pc |-> "fetching"])
  /\ UNCHANGED <<rawFlights, active, connectionStatus, pushed>>
  /\ UNCHANGED routeVars
  /\ UNCHANGED engineSide

\* the rest of fetchFlights for poll i (lines 62-77), whose list stands for
\* itself as i, and the effect that passes a new list to the engine (87-90)
Arrive(i, out) ==
  /\ polls[i].pc = "fetching"
  /\ polls' = [polls EXCEPT ![i].pc = "done"]
  /\ IF ~active
     THEN UNCHANGED <<rawFlights, connectionStatus, pushed>>
     ELSE IF out \in {"notok", "throw"}
     THEN /\ connectionStatus' = "error"
          /\ UNCHANGED <<rawFlights, pushed>>
     ELSE /\ rawFlights' = i
          /\ connectionStatus' = out
          /\ pushed' = i
  /\ UNCHANGED active
  /\ UNCHANGED routeVars
  /\ UNCHANGED engineSide

\* the cleanup of the polling effect (lines 81-84)
PollCleanup ==
  /\ active
  /\ active' = FALSE
  /\ UNCHANGED <<polls, rawFlights, connectionStatus, pushed>>
  /\ UNCHANGED routeVars
  /\ UNCHANGED engineSide

PollNext ==
  \/ fetchFlights
  \/ \E i \in 1..Len(polls), out \in Outcomes : Arrive(i, out)
  \/ PollCleanup

PollSpec == Init /\ [][PollNext]_vars

(* C40: the list the page holds and passes to the engine is never replaced
   by the response of a poll older than the poll whose response it holds, and
   once the polling effect is cleaned up no response changes the list, the
   engine's flights or the status. *)
C40_NewestResponseStays ==
  [][/\ rawFlights' >= rawFlights
     /\ pushed' >= pushed
     /\ ~active => UNCHANGED <<rawFlights, pushed, connectionStatus>>]_vars
====
